---------------------------- MODULE Spec2Model ----------------------------
(***************************************************************************)
(* Model of gerador_termos_fundopem.py: the run-aware placeholder          *)
(* substitution (docx_replace), the formatters and the placeholder map     *)
(* builder.                                                                *)
(*                                                                         *)
(* A text is a sequence of one-character strings, the characters those of  *)
(* Latin-1; a run is its text, a paragraph is the sequence of its runs and *)
(* a document is the sequence of the paragraphs docx_replace visits (body  *)
(* paragraphs first, then the paragraphs of the table cells).  A mapping   *)
(* is the sequence of <<placeholder, value>> pairs of the dict, in         *)
(* insertion order.                                                        *)
(***************************************************************************)
EXTENDS Integers, Sequences, FiniteSets, TLC

VARIABLES
    doc,        \* the document being rewritten: Seq(paragraph)
    mapping,    \* the placeholder map handed to docx_replace
    pc,         \* position in docx_replace: "call", "key", "while", "done"
    pi,         \* index (1-based) of the paragraph in replace_in_paragraph
    ki,         \* index (1-based) of the map entry of the for loop
    iter,       \* parity of the number of iterations of the current while loop
    doc0,       \* history: the document at the call
    hist,       \* history: the replacements performed, [pi, ki, before]
    last,       \* history: the most recent replacement
    form,       \* the fields of the form "dados"
    gerar,      \* whether the form was submitted and processed
    dts,        \* what to_date returned for the five dates of the form
    mp,         \* the placeholder map built from the form
    download,   \* the saved document and the file name offered for download
    call        \* a call of num_extenso: its arguments and its result

vars == <<doc, mapping, pc, pi, ki, iter, doc0, hist, last, form, gerar, dts, mp,
          download, call>>

\* the state of docx_replace, of the form and of the formatter call
engine == <<doc, mapping, pc, pi, ki, iter, doc0, hist, last>>
app == <<form, gerar, dts, mp, download>>

----------------------------------------------------------------------------
(* Bounds of the model.                                                    *)

MaxRuns == 3
MaxText == 3
MaxKeyLen == 3
MaxValLen == 3
MaxKeys == 2
MaxParas == 2
MaxGrow == 9

Alphabet == {"a", "b"}

----------------------------------------------------------------------------
(* Python's sequence primitives.                                           *)

Min(a, b) == IF a < b THEN a ELSE b
Max(a, b) == IF a > b THEN a ELSE b

\* s[:n], with Python's clamping and negative indices
PyTake(s, n) ==
    IF n >= 0 THEN SubSeq(s, 1, Min(n, Len(s)))
    ELSE SubSeq(s, 1, Max(Len(s) + n, 0))

\* s[n:]
PyDrop(s, n) ==
    IF n >= 0 THEN SubSeq(s, Min(n, Len(s)) + 1, Len(s))
    ELSE SubSeq(s, Max(Len(s) + n, 0) + 1, Len(s))

\* the 1-based position of s[i]
PyPos(s, i) == IF i >= 0 THEN i + 1 ELSE Len(s) + i + 1

\* placeholder in text
Occurs(k, t) ==
    \E i \in 1..(Len(t) - Len(k) + 1) : SubSeq(t, i, i + Len(k) - 1) = k

\* text.find(placeholder): the 0-based offset of the first occurrence, or -1
Find(t, k) ==
    IF Occurs(k, t)
    THEN (CHOOSE i \in 1..(Len(t) - Len(k) + 1) :
              /\ SubSeq(t, i, i + Len(k) - 1) = k
              /\ \A j \in 1..(i - 1) : SubSeq(t, j, j + Len(k) - 1) # k) - 1
    ELSE -1

RECURSIVE Join(_)
\* "".join(r.text for r in runs)
Join(rs) == IF rs = <<>> THEN <<>> ELSE Head(rs) \o Join(Tail(rs))

RECURSIVE SumLen(_)
\* sum(len(r.text) for r in runs)
SumLen(rs) == IF rs = <<>> THEN 0 ELSE Len(Head(rs)) + SumLen(Tail(rs))

----------------------------------------------------------------------------
(* docx_replace.replace_in_paragraph: one iteration of the while loop.     *)

\* faulty variant: only the first run is looked at
ParagraphTextFirstRun(rs) == IF rs = <<>> THEN <<>> ELSE rs[1]

\* paragraph.text
ParagraphText(rs) == Join(rs)

\* full_text of line 111
FullText(rs) == Join(rs)

RECURSIVE WalkRunsHalfOpenEnd(_, _, _, _, _, _, _)
\* faulty variant: the end offset is tested against [current_pos, next_pos)
WalkRunsHalfOpenEnd(rs, i, current_pos, run_start_idx, run_end_idx, start_pos, end_pos) ==
    IF i >= Len(rs) THEN <<run_start_idx, run_end_idx>>
    ELSE
        LET next_pos == current_pos + Len(rs[i + 1])
            rsi == IF run_start_idx = -1 /\ start_pos >= current_pos
                      /\ start_pos < next_pos
                   THEN i ELSE run_start_idx
        IN  IF run_end_idx = -1 /\ end_pos >= current_pos /\ end_pos < next_pos
            THEN <<rsi, i>>
            ELSE WalkRunsHalfOpenEnd(rs, i + 1, next_pos, rsi, run_end_idx,
                                     start_pos, end_pos)

RECURSIVE WalkRuns(_, _, _, _, _, _, _)
\* the for loop of lines 120-127, from run i (0-based) on:
\* <<run_start_idx, run_end_idx>>
WalkRuns(rs, i, current_pos, run_start_idx, run_end_idx, start_pos, end_pos) ==
    IF i >= Len(rs) THEN <<run_start_idx, run_end_idx>>
    ELSE
        LET next_pos == current_pos + Len(rs[i + 1])
            rsi == IF run_start_idx = -1 /\ start_pos >= current_pos
                      /\ start_pos < next_pos
                   THEN i ELSE run_start_idx
        IN  IF run_end_idx = -1 /\ end_pos > current_pos /\ end_pos <= next_pos
            THEN <<rsi, i>>
            ELSE WalkRuns(rs, i + 1, next_pos, rsi, run_end_idx, start_pos, end_pos)

\* lines 110-131: where the first occurrence of the placeholder lies
Locate(rs, placeholder) ==
    LET full_text == FullText(rs)
        start_pos == Find(full_text, placeholder)
        end_pos == start_pos + Len(placeholder)
        idx == WalkRuns(rs, 0, 0, -1, -1, start_pos, end_pos)
    IN  [start_pos |-> start_pos,
         end_pos |-> end_pos,
         run_start_idx |-> idx[1],
         run_end_idx |-> idx[2],
         offset_start |-> start_pos - SumLen(PyTake(rs, idx[1])),
         offset_end |-> end_pos - SumLen(PyTake(rs, idx[2]))]

\* lines 134-136: the placeholder lies in one run
SingleRun(rs, run_start_idx, offset_start, offset_end, value) ==
    LET p == PyPos(rs, run_start_idx)
    IN  [rs EXCEPT ![p] = PyTake(rs[p], offset_start) \o value
                           \o PyDrop(rs[p], offset_end)]

\* faulty variant: nothing of the value goes to the first run
FirstRunPrefixOnly(rs, run_start_idx, offset_start, value) ==
    <<[rs EXCEPT ![PyPos(rs, run_start_idx)] =
            PyTake(rs[PyPos(rs, run_start_idx)], offset_start)], value>>

\* lines 143-147: the first run; <<runs, text_to_distribute>>
FirstRun(rs, run_start_idx, offset_start, value) ==
    LET p == PyPos(rs, run_start_idx)
        space_in_first_run == Len(rs[p]) - offset_start
        chunk == PyTake(value, space_in_first_run)
    IN  <<[rs EXCEPT ![p] = PyTake(rs[p], offset_start) \o chunk],
          PyDrop(value, space_in_first_run)>>

\* faulty variant: the first intermediate run takes all that is left of the value
IntermediateRunsGreedy(rs, i, run_end_idx, text_to_distribute) ==
    IF i >= run_end_idx THEN <<rs, text_to_distribute>>
    ELSE <<[j \in 1..Len(rs) |->
                IF j = i + 1 THEN text_to_distribute
                ELSE IF j > i + 1 /\ j <= run_end_idx THEN <<>> ELSE rs[j]],
           <<>>>>

RECURSIVE IntermediateRuns(_, _, _, _)
\* lines 150-155: runs i .. run_end_idx - 1 (0-based); <<runs, text_to_distribute>>
IntermediateRuns(rs, i, run_end_idx, text_to_distribute) ==
    IF i >= run_end_idx THEN <<rs, text_to_distribute>>
    ELSE
        LET space_in_intermediate_run == Len(rs[i + 1])
            chunk == PyTake(text_to_distribute, space_in_intermediate_run)
        IN  IntermediateRuns([rs EXCEPT ![i + 1] = chunk], i + 1, run_end_idx,
                             PyDrop(text_to_distribute, space_in_intermediate_run))

\* faulty variant: the suffix of the last run is lost
LastRunNoTail(rs, run_end_idx, offset_end, text_to_distribute) ==
    [rs EXCEPT ![PyPos(rs, run_end_idx)] = text_to_distribute]

\* lines 158-160: the last run
LastRun(rs, run_end_idx, offset_end, text_to_distribute) ==
    LET p == PyPos(rs, run_end_idx)
        tail == PyDrop(rs[p], offset_end)
    IN  [rs EXCEPT ![p] = text_to_distribute \o tail]

\* lines 139-160: the placeholder spans several runs
MultiRun(rs, run_start_idx, run_end_idx, offset_start, offset_end, value) ==
    LET f == FirstRun(rs, run_start_idx, offset_start, value)
        m == IntermediateRuns(f[1], run_start_idx + 1, run_end_idx, f[2])
    IN  LastRun(m[1], run_end_idx, offset_end, m[2])

\* faulty variant: the paragraph's text is rewritten into its first run
ReplaceOnceFirstRun(rs, placeholder, value) ==
    LET T == FullText(rs)
        s == Find(T, placeholder)
    IN  [j \in 1..Len(rs) |->
            IF j = 1 THEN PyTake(T, s) \o value \o PyDrop(T, s + Len(placeholder))
            ELSE <<>>]

\* lines 110-160: the body of the while loop
ReplaceOnce(rs, placeholder, value) ==
    LET l == Locate(rs, placeholder)
    IN  IF l.run_start_idx = l.run_end_idx
        THEN SingleRun(rs, l.run_start_idx, l.offset_start, l.offset_end, value)
        ELSE MultiRun(rs, l.run_start_idx, l.run_end_idx, l.offset_start,
                      l.offset_end, value)

----------------------------------------------------------------------------
(* Characters, integers and their decimal notation.                        *)

\* F(v), with v evaluated once
Bind(v, F(_)) == CHOOSE r \in {F(x) : x \in {v}} : TRUE

Digits == <<"0", "1", "2", "3", "4", "5", "6", "7", "8", "9">>
IsDigit(c) == \E d \in 1..10 : Digits[d] = c
DigitVal(c) == (CHOOSE d \in 1..10 : Digits[d] = c) - 1
AllDigits(s) == \A i \in 1..Len(s) : IsDigit(s[i])

RECURSIVE ToIntUpTo(_, _)
\* the number the first n digits of s spell
ToIntUpTo(s, n) == IF n = 0 THEN 0 ELSE 10 * ToIntUpTo(s, n - 1) + DigitVal(s[n])

RECURSIVE Str(_)
\* str(n), n >= 0
Str(n) == IF n < 10 THEN <<Digits[n + 1]>> ELSE Str(n \div 10) \o <<Digits[(n % 10) + 1]>>

\* f"{n:02d}"
Pad2(n) == IF n < 10 THEN <<"0">> \o Str(n) ELSE Str(n)

\* s.replace(a, b), a one character and b one character or none
Replace(s, a, b) ==
    Bind(s, LAMBDA x :
        IF b = <<>> THEN SelectSeq(x, LAMBDA c : c # a)
        ELSE [i \in 1..Len(x) |-> IF x[i] = a THEN b[1] ELSE x[i]])

\* s.split(sep), sep one character: the pieces between the separators
Split(s, sep) ==
    Bind(s, LAMBDA x :
        Bind(SelectSeq([i \in 1..Len(x) |-> i], LAMBDA i : x[i] = sep), LAMBDA at :
            [n \in 1..(Len(at) + 1) |->
                SubSeq(x, (IF n = 1 THEN 0 ELSE at[n - 1]) + 1,
                          (IF n > Len(at) THEN Len(x) + 1 ELSE at[n]) - 1)]))

\* the white space Decimal() takes off both ends of a text, that of
\* str.strip(): tab, line feed, vertical tab, form feed, carriage return, the
\* four separators U+001C to U+001F, space, next line U+0085, no-break space
WhiteSpace == {"\t", "\n", "", "\f", "\r", "", "", "", "", " ", "", " "}

\* the white space int() takes off: the four separators are not part of it
IntSpace == WhiteSpace \ {"", "", "", ""}

\* s without the characters of ws at its two ends
StripOf(s, ws) ==
    Bind(s, LAMBDA x :
        Bind({i \in 1..Len(x) : x[i] \notin ws}, LAMBDA ix :
            IF ix = {} THEN <<>>
            ELSE SubSeq(x, CHOOSE i \in ix : \A j \in ix : i <= j,
                           CHOOSE i \in ix : \A j \in ix : i >= j)))

\* s.strip(), as Decimal() applies it
Strip(s) == StripOf(s, WhiteSpace)

\* a numeric text after its sign, and whether the sign is "-"
Unsigned(s) == IF s # <<>> /\ s[1] \in {"+", "-"} THEN Tail(s) ELSE s
Negative(s) == s # <<>> /\ s[1] = "-"

\* the most digits int() reads from a text: sys.get_int_max_str_digits()
MaxStrDigits == 4300

\* int(s) succeeds: white space around an optional sign and digits, where
\* single underscores may stand between digits; ValueError is raised for
\* more than MaxStrDigits digits, the leading zeros counted
IntOk(s) ==
    Bind(Unsigned(StripOf(s, IntSpace)), LAMBDA t :
        /\ t # <<>>
        /\ Cardinality({i \in 1..Len(t) : IsDigit(t[i])}) <= MaxStrDigits
        /\ \A i \in 1..Len(t) :
            \/ IsDigit(t[i])
            \/ /\ t[i] = "_"
               /\ i > 1
               /\ i < Len(t)
               /\ IsDigit(t[i - 1])
               /\ IsDigit(t[i + 1]))

\* int(s), where it succeeds and the number is small
ToInt(s) ==
    Bind(StripOf(s, IntSpace), LAMBDA t :
        Bind(SelectSeq(t, IsDigit), LAMBDA d :
            IF Negative(t) THEN 0 - ToIntUpTo(d, Len(d)) ELSE ToIntUpTo(d, Len(d))))

----------------------------------------------------------------------------
(* Numerals of any length: strings of digits.                              *)

\* a string of digits without its leading zeros
Significant(s) ==
    Bind(s, LAMBDA x :
        SubSeq(x, 1 + Cardinality({i \in 1..Len(x) : \A j \in 1..i : x[j] = "0"}),
               Len(x)))

Zeros(n) == [i \in 1..n |-> "0"]

RECURSIVE Succ(_)
\* the numeral of n + 1
Succ(s) ==
    Bind(s, LAMBDA x :
        IF x = <<>> THEN <<"1">>
        ELSE IF x[Len(x)] = "9" THEN Succ(SubSeq(x, 1, Len(x) - 1)) \o <<"0">>
        ELSE SubSeq(x, 1, Len(x) - 1) \o <<Digits[DigitVal(x[Len(x)]) + 2]>>)

\* the numeral of n + k, k the length of a text: the last eight digits are
\* added as a number, and what they carry goes to the digits before them
Plus(s, k) ==
    Bind(Zeros(Max(8 - Len(s), 0)) \o s, LAMBDA p :
        Bind(ToIntUpTo(SubSeq(p, Len(p) - 7, Len(p)), 8) + k, LAMBDA t :
            Significant(
                (IF t >= 100000000 THEN Succ(SubSeq(p, 1, Len(p) - 8))
                 ELSE SubSeq(p, 1, Len(p) - 8))
                    \o Zeros(8 - Len(Str(t % 100000000))) \o Str(t % 100000000))))

\* a <= b, of numerals without leading zeros
Leq(a, b) ==
    \/ Len(a) < Len(b)
    \/ /\ Len(a) = Len(b)
       /\ \/ a = b
          \/ \E i \in 1..Len(a) :
                /\ DigitVal(a[i]) < DigitVal(b[i])
                /\ SubSeq(a, 1, i - 1) = SubSeq(b, 1, i - 1)

RECURSIVE FlatUpTo(_, _)
Flat(ss) == Bind(ss, LAMBDA x : FlatUpTo(x, Len(x)))
\* the first n texts of a sequence, one after the other
FlatUpTo(ss, n) == IF n = 0 THEN <<>> ELSE FlatUpTo(ss, n - 1) \o ss[n]

----------------------------------------------------------------------------
(* br_currency.                                                            *)

\* the lower and upper case letters of Latin-1, as str.lower() and
\* str.upper() pair them
LowerFrom == <<
    "A", "B", "C", "D", "E", "F", "G", "H", "I", "J", "K", "L", "M", "N",
    "O", "P", "Q", "R", "S", "T", "U", "V", "W", "X", "Y", "Z", "À", "Á",
    "Â", "Ã", "Ä", "Å", "Æ", "Ç", "È", "É", "Ê", "Ë", "Ì", "Í", "Î", "Ï",
    "Ð", "Ñ", "Ò", "Ó", "Ô", "Õ", "Ö", "Ø", "Ù", "Ú", "Û", "Ü", "Ý", "Þ" >>
LowerTo == <<
    "a", "b", "c", "d", "e", "f", "g", "h", "i", "j", "k", "l", "m", "n",
    "o", "p", "q", "r", "s", "t", "u", "v", "w", "x", "y", "z", "à", "á",
    "â", "ã", "ä", "å", "æ", "ç", "è", "é", "ê", "ë", "ì", "í", "î", "ï",
    "ð", "ñ", "ò", "ó", "ô", "õ", "ö", "ø", "ù", "ú", "û", "ü", "ý", "þ" >>

\* c.lower() of one character
LowerChar(c) ==
    IF \E i \in 1..Len(LowerFrom) : LowerFrom[i] = c
    THEN LowerTo[CHOOSE i \in 1..Len(LowerFrom) : LowerFrom[i] = c] ELSE c

\* s.lower()
StrLower(s) == [i \in 1..Len(s) |-> LowerChar(s[i])]

\* the exponents the decimal module can hold: the largest exponent, and the
\* smallest one counted from zero
MaxExponent == <<
    "9", "9", "9", "9", "9", "9", "9", "9", "9", "9", "9", "9", "9", "9",
    "9", "9", "9", "9" >>
MinExponent == <<
    "1", "9", "9", "9", "9", "9", "9", "9", "9", "9", "9", "9", "9", "9",
    "9", "9", "9", "9", "7" >>

\* an exponent of more digits than this is compared as a numeral
MaxExpDigits == 8

\* Decimal(t), as Python's decimal module reads a text: white space is taken
\* off both ends and every underscore is dropped; then come an optional sign
\* and, letters in either case, "Inf" or "Infinity", or "NaN" or "sNaN" with
\* an optional payload of digits, or digits with an optional point and at
\* least one digit, and an optional exponent "e", sign, digits.  The kind is
\* "invalid" where the conversion raises InvalidOperation: the text is none
\* of these, or the number cannot be held as it is written, its exponent
\* (the written one less the digits after the point) being below minus
\* MinExponent, or, with the significant digits less one added, above
\* MaxExponent.
Decimal(t) ==
    Bind(SelectSeq(Strip(t), LAMBDA c : c # "_"), LAMBDA u :
        Bind(StrLower(Unsigned(u)), LAMBDA b :
            LET invalid == [kind |-> "invalid", neg |-> FALSE, int |-> <<>>,
                            frac |-> <<>>, eneg |-> FALSE, e |-> <<>>]
                special(kind, payload) ==
                    [kind |-> kind, neg |-> Negative(u), int |-> Significant(payload),
                     frac |-> <<>>, eneg |-> FALSE, e |-> <<>>]
                parts == Split(b, "e")
                mant == Split(parts[1], ".")
                exp == IF Len(parts) = 2 THEN parts[2] ELSE <<"0">>
                e == Significant(Unsigned(exp))
                fl == IF Len(mant) = 2 THEN Len(mant[2]) ELSE 0
                sig == Max(Len(Significant(Flat(mant))), 1)
                held == \/ Len(e) <= MaxExpDigits
                        \/ /\ Negative(exp)
                           /\ Leq(Plus(e, fl), MinExponent)
                        \/ /\ ~Negative(exp)
                           /\ Leq(Plus(e, sig - 1), Plus(MaxExponent, fl))
            IN  IF b \in {<<"i", "n", "f">>, <<"i", "n", "f", "i", "n", "i", "t", "y">>} THEN special("inf", <<>>)
                ELSE IF PyTake(b, 3) = <<"n", "a", "n">> /\ AllDigits(PyDrop(b, 3))
                THEN special("nan", PyDrop(b, 3))
                ELSE IF PyTake(b, 4) = <<"s", "n", "a", "n">> /\ AllDigits(PyDrop(b, 4))
                THEN special("snan", PyDrop(b, 4))
                ELSE IF /\ Len(parts) <= 2
                        /\ Len(mant) <= 2
                        /\ AllDigits(Flat(mant))
                        /\ Flat(mant) # <<>>
                        /\ Unsigned(exp) # <<>>
                        /\ AllDigits(Unsigned(exp))
                        /\ held
                THEN [kind |-> "finite", neg |-> Negative(u), int |-> mant[1],
                      frac |-> IF Len(mant) = 2 THEN mant[2] ELSE <<>>,
                      eneg |-> Negative(exp), e |-> e]
                ELSE invalid))

\* getcontext().prec = 12 (line 16)
Prec == 12

\* the digits dropped by a rounding make it round away from zero, under
\* ROUND_HALF_EVEN
RoundsUp(kept, dropped) ==
    /\ dropped # <<>>
    /\ \/ DigitVal(dropped[1]) > 5
       \/ /\ DigitVal(dropped[1]) = 5
          /\ \/ \E i \in 2..Len(dropped) : dropped[i] # "0"
             \/ kept # <<>> /\ DigitVal(kept[Len(kept)]) % 2 = 1

\* d.quantize(Decimal("0.01")) of a finite d, in hundredths: [ok, q], q the
\* numeral of the hundredths; ok is FALSE where InvalidOperation is raised,
\* the result having more than Prec digits
Quantize(d) ==
    LET c == Significant(d.int \o d.frac)
        fl == Len(d.frac)
        raise == [ok |-> FALSE, q |-> <<>>]
        zero == [ok |-> TRUE, q |-> <<>>]
        fits(q) == IF Len(q) <= Prec THEN [ok |-> TRUE, q |-> q] ELSE raise
    IN  IF Len(d.e) > MaxExpDigits
        THEN IF d.eneg \/ c = <<>> THEN zero ELSE raise
        ELSE
            LET shift == (IF d.eneg THEN 0 - ToInt(d.e) ELSE ToInt(d.e)) - fl + 2
                keep == Len(c) + shift
            IN  IF c = <<>> THEN zero
                ELSE IF shift >= 0
                THEN IF keep <= Prec THEN fits(c \o Zeros(shift)) ELSE raise
                ELSE IF keep < 0 THEN zero
                ELSE Bind(<<SubSeq(c, 1, keep), SubSeq(c, keep + 1, Len(c))>>,
                          LAMBDA kd :
                            fits(IF RoundsUp(kd[1], kd[2]) THEN Succ(kd[1]) ELSE kd[1]))

\* the integer part of f"{num:,.2f}", a point between its groups of three
Grouped(ip) ==
    Flat([i \in 1..Len(ip) |->
            IF i < Len(ip) /\ (Len(ip) - i) % 3 = 0 THEN <<ip[i], ".">> ELSE <<ip[i]>>])

\* f"{num:,.2f}" of a quantized num, with "," and "." exchanged (line 28)
Format(neg, q) ==
    Bind(IF Len(q) < 3 THEN Zeros(3 - Len(q)) \o q ELSE q, LAMBDA ds :
        (IF neg THEN <<"-">> ELSE <<>>)
            \o Grouped(SubSeq(ds, 1, Len(ds) - 2)) \o <<",">>
            \o SubSeq(ds, Len(ds) - 1, Len(ds)))

\* f"{num:,.2f}" of a NaN: its payload reduced to the last Prec digits
FormatNaN(neg, payload) ==
    (IF neg THEN <<"-">> ELSE <<>>) \o <<"N", "a", "N">>
        \o Significant(PyDrop(payload, Max(Len(payload) - Prec, 0)))

br_currency(v) ==
    Bind(Decimal(Replace(Replace(v, ".", <<>>), ",", <<".">>)), LAMBDA d :
        CASE d.kind = "nan" -> FormatNaN(d.neg, d.int)
          [] d.kind = "finite" ->
                Bind(Quantize(d), LAMBDA r : IF r.ok THEN Format(d.neg, r.q) ELSE v)
          [] OTHER -> v)

----------------------------------------------------------------------------
(* num2words(n, lang="pt_BR") and num_extenso.                             *)

Ate19 == <<
    <<"u", "m">>, <<"d", "o", "i", "s">>, <<"t", "r", "ê", "s">>, <<"q", "u", "a", "t", "r", "o">>, <<"c", "i", "n", "c", "o">>, <<"s", "e", "i", "s">>, <<"s", "e", "t", "e">>,
    <<"o", "i", "t", "o">>, <<"n", "o", "v", "e">>, <<"d", "e", "z">>, <<"o", "n", "z", "e">>, <<"d", "o", "z", "e">>, <<"t", "r", "e", "z", "e">>, <<"c", "a", "t", "o", "r", "z", "e">>,
    <<"q", "u", "i", "n", "z", "e">>, <<"d", "e", "z", "e", "s", "s", "e", "i", "s">>, <<"d", "e", "z", "e", "s", "s", "e", "t", "e">>, <<"d", "e", "z", "o", "i", "t", "o">>, <<"d", "e", "z", "e", "n", "o", "v", "e">> >>
Dezenas == <<
    <<"d", "e", "z">>, <<"v", "i", "n", "t", "e">>, <<"t", "r", "i", "n", "t", "a">>, <<"q", "u", "a", "r", "e", "n", "t", "a">>, <<"c", "i", "n", "q", "u", "e", "n", "t", "a">>, <<"s", "e", "s", "s", "e", "n", "t", "a">>,
    <<"s", "e", "t", "e", "n", "t", "a">>, <<"o", "i", "t", "e", "n", "t", "a">>, <<"n", "o", "v", "e", "n", "t", "a">> >>
Centenas == <<
    <<"c", "e", "n", "t", "o">>, <<"d", "u", "z", "e", "n", "t", "o", "s">>, <<"t", "r", "e", "z", "e", "n", "t", "o", "s">>, <<"q", "u", "a", "t", "r", "o", "c", "e", "n", "t", "o", "s">>, <<"q", "u", "i", "n", "h", "e", "n", "t", "o", "s">>,
    <<"s", "e", "i", "s", "c", "e", "n", "t", "o", "s">>, <<"s", "e", "t", "e", "c", "e", "n", "t", "o", "s">>, <<"o", "i", "t", "o", "c", "e", "n", "t", "o", "s">>, <<"n", "o", "v", "e", "c", "e", "n", "t", "o", "s">> >>
E == <<" ", "e", " ">>

\* 1 .. 99
Ate99(n) ==
    IF n < 20 THEN Ate19[n]
    ELSE IF n % 10 = 0 THEN Dezenas[n \div 10]
    ELSE Dezenas[n \div 10] \o E \o Ate19[n % 10]

\* 1 .. 999
Ate999(n) ==
    IF n < 100 THEN Ate99(n)
    ELSE IF n = 100 THEN <<"c", "e", "m">>
    ELSE IF n % 100 = 0 THEN Centenas[n \div 100]
    ELSE Centenas[n \div 100] \o E \o Ate99(n % 100)

\* str(int(s)), where int(s) succeeds: the numeral of the integer, "-"
\* before it when it is negative.  Python's integers have no bound, so the
\* integers of num_extenso are kept as numerals
IntText(s) ==
    Bind(StripOf(s, IntSpace), LAMBDA t :
        Bind(Significant(SelectSeq(t, IsDigit)), LAMBDA d :
            IF d = <<>> THEN <<"0">>
            ELSE (IF Negative(t) THEN <<"-">> ELSE <<>>) \o d))

\* the thousands groups of a numeral, the highest first
Grupos(d) ==
    Bind(Zeros((3 - (Len(d) % 3)) % 3) \o d, LAMBDA p :
        [i \in 1..(Len(p) \div 3) |-> ToIntUpTo(SubSeq(p, 3 * i - 2, 3 * i), 3)])

\* the cards above a thousand, one of them and several
Milhao == << <<"m", "i", "l", "h", "ã", "o">>, <<"b", "i", "l", "h", "ã", "o">>, <<"t", "r", "i", "l", "h", "ã", "o">>, <<"q", "u", "a", "t", "r", "i", "l", "h", "ã", "o">> >>
Milhoes == << <<"m", "i", "l", "h", "õ", "e", "s">>, <<"b", "i", "l", "h", "õ", "e", "s">>, <<"t", "r", "i", "l", "h", "õ", "e", "s">>, <<"q", "u", "a", "t", "r", "i", "l", "h", "õ", "e", "s">> >>

\* g thousands (nivel 1), millions (nivel 2), ...; g units (nivel 0)
Grupo(g, nivel) ==
    IF nivel = 0 THEN Ate999(g)
    ELSE IF nivel = 1 THEN (IF g = 1 THEN <<"m", "i", "l">> ELSE Ate999(g) \o <<" ", "m", "i", "l">>)
    ELSE IF g = 1 THEN <<"u", "m", " ">> \o Milhao[nivel - 1]
    ELSE Ate999(g) \o <<" ">> \o Milhoes[nivel - 1]

RECURSIVE Soma(_, _)
\* the groups from the i-th on, each one that is not zero joined to those
\* before it by " e "
Soma(gs, i) ==
    IF i > Len(gs) THEN <<>>
    ELSE Bind(Soma(gs, i + 1), LAMBDA rest :
            IF gs[i] = 0 THEN rest
            ELSE Grupo(gs[i], Len(gs) - i) \o (IF rest = <<>> THEN <<>> ELSE E \o rest))

\* the pattern ".*<ext> e \w*ento" matches the text
TemEnto(r, ext) ==
    \E i \in 1..(Len(r) - Len(ext) - 2) :
        /\ SubSeq(r, i, i + Len(ext) + 2) = ext \o E
        /\ \E j \in (i + Len(ext) + 3)..(Len(r) - 3) :
            /\ SubSeq(r, j, j + 3) = <<"e", "n", "t", "o">>
            /\ \A k \in (i + Len(ext) + 3)..(j - 1) : r[k] \notin {" ", ","}

\* r.replace(a, b, 1)
ReplaceFirst(r, a, b) ==
    IF Occurs(a, r) THEN PyTake(r, Find(r, a)) \o b \o PyDrop(r, Find(r, a) + Len(a))
    ELSE r

\* the words after which " e" becomes "," before a hundred, in the order
\* in which they are tried
Exts == << <<"m", "i", "l">>, <<"m", "i", "l", "h", "ã", "o">>, <<"m", "i", "l", "h", "õ", "e", "s">>, <<"b", "i", "l", "h", "ã", "o">>, <<"b", "i", "l", "h", "õ", "e", "s">>,
           <<"t", "r", "i", "l", "h", "ã", "o">>, <<"t", "r", "i", "l", "h", "õ", "e", "s">>, <<"q", "u", "a", "t", "r", "i", "l", "h", "ã", "o">>, <<"q", "u", "a", "t", "r", "i", "l", "h", "õ", "e", "s">> >>

RECURSIVE Virgulas(_, _)
\* "mil e cento e catorze" becomes "mil, cento e catorze": the words of
\* Exts from the i-th on, tried one after the other
Virgulas(r, i) ==
    IF i > Len(Exts) THEN r
    ELSE Bind(r, LAMBDA x :
            Virgulas(IF TemEnto(x, Exts[i])
                     THEN ReplaceFirst(x, Exts[i] \o <<" ", "e">>, Exts[i] \o <<",">>)
                     ELSE x, i + 1))

\* the number of digits from which num2words raises OverflowError
MaxDigitos == 18

\* num2words raised OverflowError
TooBig == <<"OverflowError">>

\* the words of a numeral without sign: OverflowError from 10^18 on, a comma
\* for the "e" before the hundreds after the thousands and the millions
Cardinal(d) ==
    IF Len(d) > MaxDigitos THEN TooBig
    ELSE IF d = <<"0">> THEN <<"z", "e", "r", "o">>
    ELSE Virgulas(Soma(Grupos(d), 1), 1)

\* num2words(n, lang="pt_BR"), n an integer as IntText gives it: "menos"
\* before the words of a negative number.  The keys of lines 271-302 are
\* passages of the template, written by hand, and not all of them are what
\* num2words gives for their amount: line 288 spells 113.874 as "cento e
\* noventa e três mil, ...", and line 296 has "mil, e quinhentos e nove"
\* where num2words gives "mil, quinhentos e nove" for 239509 (the "e" after
\* "mil" is replaced by the comma, never kept beside it).
Num2Words(n) ==
    Bind(Cardinal(Unsigned(n)), LAMBDA c :
        IF c = TooBig THEN TooBig
        ELSE (IF Negative(n) THEN <<"m", "e", "n", "o", "s", " ">> ELSE <<>>) \o c)

\* the return of num_extenso once int_str and dec_str are split
Extenso(num, modo, int_str, dec_str) ==
    IF ~(IntOk(int_str) /\ IntOk(dec_str)) THEN num
    ELSE
        Bind(<<IntText(int_str), IntText(dec_str)>>, LAMBDA n :
            Bind(Num2Words(n[1]), LAMBDA ext_i :
                IF ext_i = TooBig THEN num
                ELSE IF n[2] # <<"0">>
                THEN Bind(Num2Words(n[2]), LAMBDA ext_d :
                        IF ext_d = TooBig THEN num
                        ELSE IF modo = "uif"
                        THEN ext_i \o <<" ">>
                                \o (IF n[1] = <<"1">> THEN <<"i", "n", "t", "e", "i", "r", "o">> ELSE <<"i", "n", "t", "e", "i", "r", "o", "s">>)
                                \o <<",", " ", "e", " ">> \o ext_d \o <<" ">>
                                \o (IF n[2] = <<"1">> THEN <<"c", "e", "n", "t", "é", "s", "i", "m", "o">>
                                    ELSE <<"c", "e", "n", "t", "é", "s", "i", "m", "o", "s">>)
                        ELSE ext_i \o <<" ", "v", "í", "r", "g", "u", "l", "a", " ">> \o ext_d)
                ELSE ext_i))

num_extenso(num, modo) ==
    Bind(Split(br_currency(num), ","), LAMBDA parts :
        IF Len(parts) # 2 THEN num
        ELSE Bind(Replace(parts[1], ".", <<>>), LAMBDA int_str :
                Extenso(num, modo, int_str, parts[2])))

----------------------------------------------------------------------------
(* Dates: to_date, data_texto, data_formato_ponto.                         *)

\* to_date's None
None == [year |-> 0, month |-> 0, day |-> 0]

MESES == <<
    <<"j", "a", "n", "e", "i", "r", "o">>, <<"f", "e", "v", "e", "r", "e", "i", "r", "o">>, <<"m", "a", "r", "ç", "o">>, <<"a", "b", "r", "i", "l">>, <<"m", "a", "i", "o">>, <<"j", "u", "n", "h", "o">>,
    <<"j", "u", "l", "h", "o">>, <<"a", "g", "o", "s", "t", "o">>, <<"s", "e", "t", "e", "m", "b", "r", "o">>, <<"o", "u", "t", "u", "b", "r", "o">>, <<"n", "o", "v", "e", "m", "b", "r", "o">>,
    <<"d", "e", "z", "e", "m", "b", "r", "o">> >>

\* c.upper() of one character: a text, "ß" giving two characters; the two
\* capitals beyond Latin-1 are written by their code points
UpperChar(c) ==
    IF c = "ß" THEN <<"S", "S">>
    ELSE IF c = "µ" THEN <<"U+039C">>
    ELSE IF c = "ÿ" THEN <<"U+0178">>
    ELSE IF \E i \in 1..Len(LowerTo) : LowerTo[i] = c
    THEN <<LowerFrom[CHOOSE i \in 1..Len(LowerTo) : LowerTo[i] = c]>>
    ELSE <<c>>

\* c.title() of one character
TitleChar(c) == IF c = "ß" THEN <<"S", "s">> ELSE UpperChar(c)

\* s.upper()
StrUpper(s) == Flat([i \in 1..Len(s) |-> UpperChar(s[i])])

\* s.capitalize(): the first character in title case, the others in lower case
Capitalize(s) ==
    Flat([i \in 1..Len(s) |-> IF i = 1 THEN TitleChar(s[i]) ELSE <<LowerChar(s[i])>>])

IsLeap(y) == (y % 4 = 0 /\ y % 100 # 0) \/ y % 400 = 0
DaysIn(y, m) ==
    IF m = 2 THEN (IF IsLeap(y) THEN 29 ELSE 28)
    ELSE IF m \in {4, 6, 9, 11} THEN 30 ELSE 31

\* date(y, m, d) exists
ValidDate(y, m, d) == y >= 1 /\ m \in 1..12 /\ d >= 1 /\ d <= DaysIn(y, m)

\* strptime's pattern of %d: 3[0-1]|[1-2]\d|0[1-9]|[1-9]| [1-9]
DayOk(s) ==
    \/ Len(s) = 1 /\ IsDigit(s[1]) /\ s[1] # "0"
    \/ /\ Len(s) = 2
       /\ \/ s[1] = "3" /\ s[2] \in {"0", "1"}
          \/ s[1] \in {"1", "2"} /\ IsDigit(s[2])
          \/ s[1] \in {"0", " "} /\ IsDigit(s[2]) /\ s[2] # "0"

\* strptime's pattern of %m: 1[0-2]|0[1-9]|[1-9]
MonthOk(s) ==
    \/ Len(s) = 1 /\ IsDigit(s[1]) /\ s[1] # "0"
    \/ /\ Len(s) = 2
       /\ \/ s[1] = "1" /\ s[2] \in {"0", "1", "2"}
          \/ s[1] = "0" /\ IsDigit(s[2]) /\ s[2] # "0"

\* strptime's pattern of %Y: \d\d\d\d
YearOk(s) == Len(s) = 4 /\ AllDigits(s)

\* datetime.strptime(x, fmt).date() for the formats "%d<sep>%m<sep>%Y"
\* (dayFirst) and "%Y<sep>%m<sep>%d"; None stands for ValueError
Strptime(x, sep, dayFirst) ==
    Bind(Split(x, sep), LAMBDA parts :
        IF Len(parts) # 3 THEN None
        ELSE
            LET ds == IF dayFirst THEN parts[1] ELSE parts[3]
                ms == parts[2]
                ys == IF dayFirst THEN parts[3] ELSE parts[1]
            IN  IF DayOk(ds) /\ MonthOk(ms) /\ YearOk(ys)
                   /\ ValidDate(ToInt(ys), ToInt(ms), ToInt(ds))
                THEN [year |-> ToInt(ys), month |-> ToInt(ms), day |-> ToInt(ds)]
                ELSE None)

\* an exception that to_date does not catch: the call does not return
Raised == [year |-> -1, month |-> 0, day |-> 0]

\* the dates there are: datetime.date has the years 1 to 9999
AllDates ==
    {d \in [year : 1..9999, month : 1..12, day : 1..31] :
        ValidDate(d.year, d.month, d.day)}

\* a text of 15 digits or more that spell a number of 11 digits or more: the
\* parser takes it for a year, which datetime cannot hold in a C int
TooLong(x) == AllDigits(x) /\ Len(x) >= 15 /\ Len(Significant(x)) >= 11

\* the outcomes of dateutil's parse(x, dayfirst=True).date() with ParserError
\* and ValueError turned into None (lines 61-64).  The parser is a library
\* outside the program: it reads many notations, and fills in what a text
\* leaves out from the day it is run.  An empty text, letters that name
\* nothing, and the 31st of February have no date; a number too long for a
\* year raises OverflowError, which line 63 does not catch; of any other text
\* the library decides: None, an exception, or one of the dates there are.
DateutilParse(x) ==
    IF x \in {<<>>, <<"a", "b", "c">>, <<"3", "1", "/", "0", "2", "/", "2", "0", "2", "5">>} THEN {None}
    ELSE IF TooLong(x) THEN {Raised}
    ELSE {None, Raised} \cup AllDates

\* the outcomes of to_date(x): the first format strptime accepts decides,
\* dateutil otherwise
to_date(x) ==
    Bind(<<Strptime(x, "/", TRUE), Strptime(x, ".", TRUE), Strptime(x, "-", FALSE)>>,
         LAMBDA tries :
            IF tries[1] # None THEN {tries[1]}
            ELSE IF tries[2] # None THEN {tries[2]}
            ELSE IF tries[3] # None THEN {tries[3]}
            ELSE DateutilParse(x))

data_texto(dt, mes_ano) ==
    IF dt = None THEN <<>>
    ELSE IF mes_ano THEN Capitalize(MESES[dt.month]) \o <<"/">> \o Str(dt.year)
    ELSE Str(dt.day) \o <<" ", "d", "e", " ">> \o MESES[dt.month] \o <<" ", "d", "e", " ">> \o Str(dt.year)

data_formato_ponto(dt) ==
    IF dt = None THEN <<>>
    ELSE Pad2(dt.day) \o <<".">> \o Pad2(dt.month) \o <<".">> \o Str(dt.year)

----------------------------------------------------------------------------
(* format_cnpj, format_cpf.                                                *)

\* re.sub(r"\D", "", s)
OnlyDigits(s) == SelectSeq(s, IsDigit)

format_cnpj(cnpj) ==
    LET d == OnlyDigits(cnpj)
    IN  IF Len(d) = 14
        THEN SubSeq(d, 1, 2) \o <<".">> \o SubSeq(d, 3, 5) \o <<".">> \o SubSeq(d, 6, 8)
                \o <<"/">> \o SubSeq(d, 9, 12) \o <<"-">> \o SubSeq(d, 13, 14)
        ELSE cnpj

format_cpf(cpf) ==
    LET d == OnlyDigits(cpf)
    IN  IF Len(d) = 11
        THEN SubSeq(d, 1, 3) \o <<".">> \o SubSeq(d, 4, 6) \o <<".">> \o SubSeq(d, 7, 9)
                \o <<"-">> \o SubSeq(d, 10, 11)
        ELSE cpf

----------------------------------------------------------------------------
(* The keys of the placeholder map, as the source spells them.             *)

\* line 271
KeyValorTotal == <<
    "6", "9", "3", ".", "2", "2", "4", ",", "3", "2", " ", "U", "I", "F",
    "/", "R", "S", " ", "(", "s", "e", "i", "s", "c", "e", "n", "t", "o",
    "s", " ", "e", " ", "n", "o", "v", "e", "n", "t", "a", " ", "e", " ",
    "t", "r", "ê", "s", " ", "m", "i", "l", ",", " ", "d", "u", "z", "e",
    "n", "t", "o", "s", " ", "e", " ", "v", "i", "n", "t", "e", " ", "e",
    " ", "q", "u", "a", "t", "r", "o", " ", "i", "n", "t", "e", "i", "r",
    "o", "s", ",", " ", "e", " ", "t", "r", "i", "n", "t", "a", " ", "e",
    " ", "d", "o", "i", "s", " ", "c", "e", "n", "t", "é", "s", "i", "m",
    "o", "s", " ", "d", "e", " ", "U", "n", "i", "d", "a", "d", "e", "s",
    " ", "d", "e", " ", "I", "n", "c", "e", "n", "t", "i", "v", "o", " ",
    "d", "o", " ", "F", "U", "N", "D", "O", "P", "E", "M", "/", "R", "S",
    ")" >>
\* line 276
KeyValorApres == <<
    "1", "9", "3", ".", "8", "7", "4", ",", "4", "1", " ", "U", "I", "F",
    "/", "R", "S", " ", "(", "c", "e", "n", "t", "o", " ", "e", " ", "n",
    "o", "v", "e", "n", "t", "a", " ", "e", " ", "t", "r", "ê", "s", " ",
    "m", "i", "l", ",", " ", "o", "i", "t", "o", "c", "e", "n", "t", "o",
    "s", " ", "e", " ", "s", "e", "t", "e", "n", "t", "a", " ", "e", " ",
    "q", "u", "a", "t", "r", "o", " ", "i", "n", "t", "e", "i", "r", "o",
    "s", ",", " ", "e", " ", "q", "u", "a", "r", "e", "n", "t", "a", " ",
    "e", " ", "u", "m", " ", "c", "e", "n", "t", "é", "s", "i", "m", "o",
    "s", " ", "d", "e", " ", "U", "n", "i", "d", "a", "d", "e", "s", " ",
    "d", "e", " ", "I", "n", "c", "e", "n", "t", "i", "v", "o", " ", "d",
    "o", " ", "F", "U", "N", "D", "O", "P", "E", "M", "/", "R", "S", ")" >>
KeyG10 == <<"=", "g", "1", "0">>
\* line 282
KeyValorAceito == <<
    "1", "5", "9", ".", "1", "2", "3", ",", "2", "2", " ", "U", "I", "F",
    "/", "R", "S", " ", "(", "c", "e", "n", "t", "o", " ", "e", " ", "c",
    "i", "n", "q", "u", "e", "n", "t", "a", " ", "e", " ", "n", "o", "v",
    "e", " ", "m", "i", "l", ",", " ", "c", "e", "n", "t", "o", " ", "e",
    " ", "v", "i", "n", "t", "e", " ", "e", " ", "t", "r", "ê", "s", " ",
    "i", "n", "t", "e", "i", "r", "o", "s", ",", " ", "e", " ", "v", "i",
    "n", "t", "e", " ", "e", " ", "d", "o", "i", "s", " ", "c", "e", "n",
    "t", "é", "s", "i", "m", "o", "s", " ", "d", "e", " ", "U", "n", "i",
    "d", "a", "d", "e", "s", " ", "d", "e", " ", "I", "n", "c", "e", "n",
    "t", "i", "v", "o", " ", "d", "o", " ", "F", "U", "N", "D", "O", "P",
    "E", "M", "/", "R", "S", ")" >>
KeyG11 == <<"=", "g", "1", "1">>
\* line 288
KeyEquips == <<
    "D", "o", " ", "v", "a", "l", "o", "r", " ", "e", "s", "t", "a", "b",
    "e", "l", "e", "c", "i", "d", "o", " ", "n", "o", " ", "i", "t", "e",
    "m", " ", "2", ".", "3", ".", "1", " ", "d", "e", "s", "t", "a", " ",
    "C", "l", "á", "u", "s", "u", "l", "a", ",", " ", "o", " ", "m", "o",
    "n", "t", "a", "n", "t", "e", " ", "d", "e", " ", "1", "1", "3", ".",
    "8", "7", "4", ",", "4", "1", " ", "U", "I", "F", "/", "R", "S", " ",
    "(", "c", "e", "n", "t", "o", " ", "e", " ", "n", "o", "v", "e", "n",
    "t", "a", " ", "e", " ", "t", "r", "ê", "s", " ", "m", "i", "l", ",",
    " ", "o", "i", "t", "o", "c", "e", "n", "t", "o", "s", " ", "e", " ",
    "s", "e", "t", "e", "n", "t", "a", " ", "e", " ", "q", "u", "a", "t",
    "r", "o", " ", "i", "n", "t", "e", "i", "r", "o", "s", ",", " ", "e",
    " ", "q", "u", "a", "r", "e", "n", "t", "a", " ", "e", " ", "u", "m",
    " ", "c", "e", "n", "t", "é", "s", "i", "m", "o", "s", " ", "d", "e",
    " ", "U", "n", "i", "d", "a", "d", "e", "s", " ", "d", "e", " ", "I",
    "n", "c", "e", "n", "t", "i", "v", "o", " ", "d", "o", " ", "F", "U",
    "N", "D", "O", "P", "E", "M", "/", "R", "S", ")", " ", "c", "o", "n",
    "t", "e", "m", "p", "l", "a", " ", "o", "s", " ", "i", "n", "v", "e",
    "s", "t", "i", "m", "e", "n", "t", "o", "s", " ", "r", "e", "a", "l",
    "i", "z", "a", "d", "o", "s", " ", "e", "m", " ", "e", "q", "u", "i",
    "p", "a", "m", "e", "n", "t", "o", "s", "." >>
\* line 296
KeyLimite == <<
    "2", "3", "9", ".", "5", "0", "9", ",", "0", "0", " ", "U", "I", "F",
    "/", "R", "S", " ", "(", "d", "u", "z", "e", "n", "t", "o", "s", " ",
    "e", " ", "t", "r", "i", "n", "t", "a", " ", "e", " ", "n", "o", "v",
    "e", " ", "m", "i", "l", ",", " ", "e", " ", "q", "u", "i", "n", "h",
    "e", "n", "t", "o", "s", " ", "e", " ", "n", "o", "v", "e", " ", "i",
    "n", "t", "e", "i", "r", "o", "s", " ", "d", "e", " ", "U", "n", "i",
    "d", "a", "d", "e", "s", " ", "d", "e", " ", "I", "n", "c", "e", "n",
    "t", "i", "v", "o", " ", "d", "o", " ", "F", "U", "N", "D", "O", "P",
    "E", "M", "/", "R", "S", ")" >>
KeyG8 == <<"=", "g", "8">>
\* line 302
KeyFruicao == <<
    "6", "2", ".", "2", "9", "9", ",", "9", "2", " ", "U", "I", "F", "/",
    "R", "S", " ", "(", "s", "e", "s", "s", "e", "n", "t", "a", " ", "e",
    " ", "d", "o", "i", "s", " ", "m", "i", "l", ",", " ", "d", "u", "z",
    "e", "n", "t", "o", "s", " ", "e", " ", "n", "o", "v", "e", "n", "t",
    "a", " ", "e", " ", "n", "o", "v", "e", " ", "i", "n", "t", "e", "i",
    "r", "o", "s", ",", " ", "e", " ", "n", "o", "v", "e", "n", "t", "a",
    " ", "e", " ", "d", "o", "i", "s", " ", "c", "e", "n", "t", "é", "s",
    "i", "m", "o", "s", " ", "d", "e", " ", "U", "n", "i", "d", "a", "d",
    "e", "s", " ", "d", "e", " ", "I", "n", "c", "e", "n", "t", "i", "v",
    "o", " ", "d", "o", " ", "F", "U", "N", "D", "O", "P", "E", "M", "/",
    "R", "S", ")" >>
KeyG21 == <<"=", "g", "2", "1">>
KeyPontosFrase == <<
    "#", "p", "o", "n", "t", "o", "s", "#", " ", "(", "s", "e", "s", "s",
    "e", "n", "t", "a", ")", " ", "p", "o", "n", "t", "o", "s" >>
KeyIntegrarFrase == <<
    "#", "i", "n", "t", "e", "g", "r", "a", "r", "#", " ", "(", "t", "r",
    "i", "n", "t", "a", " ", "e", " ", "q", "u", "a", "t", "r", "o", " ",
    "v", "í", "r", "g", "u", "l", "a", " ", "c", "i", "n", "q", "u", "e",
    "n", "t", "a", " ", "e", " ", "c", "i", "n", "c", "o", " ", "p", "o",
    "r", " ", "c", "e", "n", "t", "o", ")" >>
KeyIntegrarPct == <<"#", "i", "n", "t", "e", "g", "r", "a", "r", "#", "%">>
KeyIntegrar == <<"#", "i", "n", "t", "e", "g", "r", "a", "r", "#">>
KeyEmp == <<"#", "e", "m", "p", "#">>
KeyEmp297 == <<
    "(", "d", "u", "z", "e", "n", "t", "o", "s", " ", "e", " ", "n", "o",
    "v", "e", "n", "t", "a", " ", "e", " ", "s", "e", "t", "e", ")" >>
KeyEmp294 == <<
    "(", "d", "u", "z", "e", "n", "t", "o", "s", " ", "e", " ", "n", "o",
    "v", "e", "n", "t", "a", " ", "e", " ", "q", "u", "a", "t", "r", "o",
    ")" >>
KeyTermo == <<"#", "x", "x", "/", "a", "a", "a", "a", "#">>
KeyEmpresa == <<"#", "E", "M", "P", "R", "E", "S", "A", "#">>
KeyEndereco == <<"#", "E", "N", "D", "E", "R", "E", "C", "O", "#">>
KeyCnpj == <<
    "#", "X", "X", ".", "X", "X", "X", ".", "X", "X", "X", "/", "0", "0",
    "0", "1", "-", "X", "X", "#" >>
KeyRepresentante == <<
    "#", "R", "E", "P", "R", "E", "S", "E", "N", "T", "A", "N", "T", "E",
    "#" >>
KeyCPF == <<"#", "C", "P", "F", "#">>
KeyCpf == <<"#", "c", "p", "f", "#">>
KeyProa == <<"#", "p", "r", "o", "a", "#">>
KeyCidade == <<"#", "c", "i", "d", "a", "d", "e", "#">>
KeyCorede == <<"#", "c", "o", "r", "e", "d", "e", "#">>
KeyMunicipioECorede == <<
    "#", "M", "U", "N", "I", "C", "I", "P", "I", "O", "_", "E", "_", "C",
    "O", "R", "E", "D", "E", "#" >>
KeyIdese == <<"#", "i", "d", "e", "s", "e", "#">>
KeySetint == <<"#", "s", "e", "t", "i", "n", "t", "#">>
KeySet == <<"#", "s", "e", "t", "#">>
KeyIt == <<"#", "i", "t", "#">>
KeyPorte == <<"#", "p", "o", "r", "t", "e", "#">>
KeyCgcte == <<"#", "c", "g", "c", "t", "e", "#">>
KeyPontos == <<"#", "p", "o", "n", "t", "o", "s", "#">>
KeyCpfFrase == <<
    "C", "P", "F", " ", "X", "X", "X", ".", "X", "X", "X", ".", "X", "X",
    "X", "-", "X", "X" >>
KeyInicio == <<"#", "i", "n", "i", "c", "i", "o", "#">>
KeyFinal == <<"#", "f", "i", "n", "a", "l", "#">>
KeyFinal2 == <<"#", "f", "i", "n", "a", "l", "2", "#">>
KeyRegularidade == <<"#", "r", "e", "g", "u", "l", "a", "r", "i", "d", "a", "d", "e", "#">>
\* line 364
KeyParecer == <<
    "P", "a", "r", "e", "c", "e", "r", " ", "n", "º", " ", "x", "x", "x",
    "/", "a", "a", "a", "a", ",", " ", "d", "e", " ", "d", "d", ".", "m",
    "m", ".", "a", "a", "a", "a", " ", "(", "D", "O", "E", " ", "d", "e",
    " ", "d", "d", ".", "m", "m", ".", "a", "a", "a", "a", ")" >>
\* line 372
KeyProaFrase == <<
    "e", " ", "n", "a", " ", "d", "o", "c", "u", "m", "e", "n", "t", "a",
    "ç", "ã", "o", " ", "q", "u", "e", " ", "i", "n", "s", "t", "r", "u",
    "i", " ", "o", " ", "p", "r", "o", "c", "e", "s", "s", "o", " ", "a",
    "d", "m", "i", "n", "i", "s", "t", "r", "a", "t", "i", "v", "o", " ",
    "n", "º", " ", "#", "p", "r", "o", "a", "#", ",", " ", "d", "e", " ",
    "0", "3", " ", "d", "e", " ", "s", "e", "t", "e", "m", "b", "r", "o",
    " ", "d", "e", " ", "2", "0", "2", "4", ",", " ", "q", "u", "e", " ",
    "p", "a", "s", "s", "a", "m", " ", "a", " ", "f", "a", "z", "e", "r",
    " ", "p", "a", "r", "t", "e", " ", "i", "n", "t", "e", "g", "r", "a",
    "n", "t", "e", " ", "d", "e", "s", "t", "e", " ", "i", "n", "s", "t",
    "r", "u", "m", "e", "n", "t", "o", "." >>

----------------------------------------------------------------------------
(* dict: the pairs <<key, value>> in insertion order.                      *)

HasKey(m, k) == \E i \in 1..Len(m) : m[i][1] = k
Get(m, k) == m[CHOOSE i \in 1..Len(m) : m[i][1] = k][2]

\* the indices of the first occurrence of each key of a sequence of pairs
Firsts(all) ==
    SelectSeq([i \in 1..Len(all) |-> i],
              LAMBDA i : \A j \in 1..(i - 1) : all[j][1] # all[i][1])

\* the index of the last occurrence of a key
LastIndex(all, k) ==
    CHOOSE i \in 1..Len(all) : all[i][1] = k /\ \A j \in (i + 1)..Len(all) : all[j][1] # k

\* m after the assignments m[k] = v of kvs, in order (m.update(kvs)): a key
\* keeps the place of its first insertion and holds the value assigned last
DictUpdate(m, kvs) ==
    Bind(m \o kvs, LAMBDA all :
        Bind(Firsts(all), LAMBDA firsts :
            [n \in 1..Len(firsts) |->
                <<all[firsts[n]][1], all[LastIndex(all, all[firsts[n]][1])][2]>>]))

\* m.pop(k, None)
DictPop(m, k) == SelectSeq(m, LAMBDA e : e[1] # k)

----------------------------------------------------------------------------
(* The map builder: the processing of the submitted form.  Each block is   *)
(* the sequence of the assignments mp[key] = value it makes, in order.     *)

\* a builder that enters every entry, whatever the input
TruthyAlways(x) == TRUE

\* if x: of a string
Truthy(x) == x # <<>>

\* f"{fmt} UIF/RS ({num_extenso(fmt)} de Unidades de Incentivo do FUNDOPEM/RS)"
UifFrase(fmt) ==
    fmt \o <<" ", "U", "I", "F", "/", "R", "S", " ", "(">> \o num_extenso(fmt, "uif")
        \o <<
            " ", "d", "e", " ", "U", "n", "i", "d", "a", "d", "e", "s", " ",
            "d", "e", " ", "I", "n", "c", "e", "n", "t", "i", "v", "o", " ",
            "d", "o", " ", "F", "U", "N", "D", "O", "P", "E", "M", "/", "R",
            "S", ")" >>

\* lines 269-303: one monetary field, its sentence and its reference marker
\* (keyRef is empty for the field that has none)
Valor(v, keyFrase, keyRef) ==
    IF Truthy(v)
    THEN Bind(br_currency(v), LAMBDA fmt :
            <<<<keyFrase, UifFrase(fmt)>>>>
                \o (IF keyRef # <<>> THEN <<<<keyRef, fmt>>>> ELSE <<>>))
    ELSE <<>>

\* lines 286-291
Equips(v) ==
    IF Truthy(v)
    THEN Bind(br_currency(v), LAMBDA fmt_equip :
            <<<<KeyEquips,
                <<
                    "D", "o", " ", "v", "a", "l", "o", "r", " ", "e", "s",
                    "t", "a", "b", "e", "l", "e", "c", "i", "d", "o", " ",
                    "n", "o", " ", "i", "t", "e", "m", " ", "2", ".", "3",
                    ".", "1", " ", "d", "e", "s", "t", "a", " ", "C", "l",
                    "á", "u", "s", "u", "l", "a", ",", " ", "o", " ", "m",
                    "o", "n", "t", "a", "n", "t", "e", " ", "d", "e", " " >>
                    \o fmt_equip \o <<" ", "U", "I", "F", "/", "R", "S", " ", "(">> \o num_extenso(fmt_equip, "uif")
                    \o <<
                        " ", "d", "e", " ", "U", "n", "i", "d", "a", "d",
                        "e", "s", " ", "d", "e", " ", "I", "n", "c", "e",
                        "n", "t", "i", "v", "o", " ", "d", "o", " ", "F",
                        "U", "N", "D", "O", "P", "E", "M", "/", "R", "S",
                        ")", " ", "c", "o", "n", "t", "e", "m", "p", "l",
                        "a", " ", "o", "s", " ", "i", "n", "v", "e", "s",
                        "t", "i", "m", "e", "n", "t", "o", "s", " ", "r",
                        "e", "a", "l", "i", "z", "a", "d", "o", "s", " ",
                        "e", "m", " ", "e", "q", "u", "i", "p", "a", "m",
                        "e", "n", "t", "o", "s", "." >>>>>>)
    ELSE <<>>

\* lines 267-303
Valores(f) ==
    Valor(f.valor_total, KeyValorTotal, <<>>)
        \o Valor(f.valor_apres_inicial, KeyValorApres, KeyG10)
        \o Valor(f.valor_inicial_aceito, KeyValorAceito, KeyG11)
        \o Equips(f.equips_24)
        \o Valor(f.limite_max_liberado, KeyLimite, KeyG8)
        \o Valor(f.valor_liberado_fruicao, KeyFruicao, KeyG21)

\* lines 306-312
PontosPercentual(f) ==
    (IF Truthy(f.pontos_fundopem)
     THEN <<<<KeyPontosFrase,
              f.pontos_fundopem \o <<" ", "(">> \o num_extenso(f.pontos_fundopem, "geral")
                \o <<")", " ", "p", "o", "n", "t", "o", "s">>>>>>
     ELSE <<>>)
    \o
    (IF Truthy(f.perc_integrar)
     THEN LET perc_ext == num_extenso(f.perc_integrar, "percent") \o <<" ", "p", "o", "r", " ", "c", "e", "n", "t", "o">>
          IN  << <<KeyIntegrarFrase, f.perc_integrar \o <<"%", " ", "(">> \o perc_ext \o <<")">>>>,
                 <<KeyIntegrarPct, f.perc_integrar \o <<"%">>>>,
                 <<KeyIntegrar, f.perc_integrar>> >>
     ELSE <<>>)

\* lines 315-318
Empregos(f) ==
    IF Truthy(f.qtd_empregos)
    THEN Bind(<<"(">> \o num_extenso(f.qtd_empregos, "geral") \o <<")">>, LAMBDA ext :
            << <<KeyEmp, f.qtd_empregos>>, <<KeyEmp297, ext>>, <<KeyEmp294, ext>> >>)
    ELSE <<>>

\* a composite filled in as soon as one of its parts is given
MunicipioECoredeEither(cidade, corede) ==
    IF Truthy(cidade) \/ Truthy(corede)
    THEN cidade \o <<"/", "R", "S", " ", "(", "C", "O", "R", "E", "D", "E", ":", " ">> \o corede \o <<")">>
    ELSE <<>>

\* line 332
MunicipioECorede(cidade, corede) ==
    IF Truthy(cidade) /\ Truthy(corede)
    THEN cidade \o <<"/", "R", "S", " ", "(", "C", "O", "R", "E", "D", "E", ":", " ">> \o corede \o <<")">>
    ELSE <<>>

\* lines 321-340
Simples(f) == <<
    <<KeyTermo, f.termo_num>>,
    <<KeyEmpresa, StrUpper(f.empresa_nome)>>,
    <<KeyEndereco, f.empresa_endereco>>,
    <<KeyCnpj, format_cnpj(f.empresa_cnpj)>>,
    <<KeyRepresentante, f.representante_nome>>,
    <<KeyCPF, format_cpf(f.representante_cpf)>>,
    <<KeyCpf, format_cpf(f.representante_cpf)>>,
    <<KeyProa, f.proa_num>>,
    <<KeyCidade, f.cidade>>,
    <<KeyCorede, f.corede>>,
    <<KeyMunicipioECorede, MunicipioECorede(f.cidade, f.corede)>>,
    <<KeyIdese, f.pontos_idese>>,
    <<KeySetint, f.pontos_setor>>,
    <<KeySet, f.set_estrategicos>>,
    <<KeyIt, f.intensidade_tec>>,
    <<KeyPorte, f.empresa_porte>>,
    <<KeyCgcte, f.empresa_cgcte>>,
    <<KeyPontos, f.pontos_fundopem>> >>

\* line 342
CpfFrase(f) == <<<<KeyCpfFrase, <<"C", "P", "F", " ">> \o format_cpf(f.representante_cpf)>>>>

\* lines 348-352: what the five calls of to_date may do
Dates(f) ==
    {[dt_inicio |-> a, dt_final |-> b, dt_parecer |-> c, dt_doe |-> d, dt_proa |-> e] :
        a \in to_date(f.data_inicio), b \in to_date(f.data_final_fruicao),
        c \in to_date(f.parecer_data), d \in to_date(f.doe_data),
        e \in to_date(f.proa_data)}

\* lines 355-360
Datas(f, dt) ==
    << <<KeyInicio, data_formato_ponto(dt.dt_inicio)>>,
       <<KeyFinal, data_texto(dt.dt_final, TRUE)>>,
       <<KeyFinal2, Replace(data_texto(dt.dt_final, TRUE), " ", <<>>)>>,
       <<KeyRegularidade, f.mes_regularidade>> >>

\* lines 363-367
Parecer(f, dt) ==
    IF Truthy(f.parecer_num) /\ dt.dt_parecer # None /\ dt.dt_doe # None
    THEN <<<<KeyParecer,
             <<"P", "a", "r", "e", "c", "e", "r", " ", "n", "º", " ">> \o f.parecer_num \o <<",", " ", "d", "e", " ">>
                \o data_formato_ponto(dt.dt_parecer) \o <<" ", "(", "D", "O", "E", " ", "d", "e", " ">>
                \o data_formato_ponto(dt.dt_doe) \o <<")">>>>>>
    ELSE <<>>

\* lines 370-374
ProaFrase(f, dt) ==
    IF Truthy(f.proa_num) /\ dt.dt_proa # None
    THEN <<<<KeyProaFrase,
             <<
                 "e", " ", "n", "a", " ", "d", "o", "c", "u", "m", "e", "n",
                 "t", "a", "ç", "ã", "o", " ", "q", "u", "e", " ", "i", "n",
                 "s", "t", "r", "u", "i", " ", "o", " ", "p", "r", "o", "c",
                 "e", "s", "s", "o", " ", "a", "d", "m", "i", "n", "i", "s",
                 "t", "r", "a", "t", "i", "v", "o", " ", "n", "º", " " >>
                \o f.proa_num \o <<",", " ", "d", "e", " ">> \o data_formato_ponto(dt.dt_proa)
                \o <<
                    ",", " ", "q", "u", "e", " ", "p", "a", "s", "s", "a",
                    "m", " ", "a", " ", "f", "a", "z", "e", "r", " ", "p",
                    "a", "r", "t", "e", " ", "i", "n", "t", "e", "g", "r",
                    "a", "n", "t", "e", " ", "d", "e", "s", "t", "e", " ",
                    "i", "n", "s", "t", "r", "u", "m", "e", "n", "t", "o",
                    "." >>>>>>
    ELSE <<>>

\* lines 265-374: mp, as docx_replace receives it, when the calls of to_date
\* returned dt
BuildMap(f, dt) ==
    LET m1 == DictUpdate(<<>>, Valores(f) \o PontosPercentual(f) \o Empregos(f)
                                \o Simples(f) \o CpfFrase(f))
        m2 == DictPop(DictPop(m1, KeyCPF), KeyCpf)
    IN  DictUpdate(m2, Datas(f, dt) \o Parecer(f, dt) \o ProaFrase(f, dt))

\* line 407: the file name of the download
Nome(f) ==
    <<"T", "e", "r", "m", "o", "_", "A", "j", "u", "s", "t", "e", "_">>
        \o Replace(IF Truthy(f.termo_num) THEN f.termo_num ELSE <<"n", "o", "v", "o">>, "/", <<"-">>)
        \o <<"_">>
        \o Replace(IF Truthy(f.empresa_nome) THEN f.empresa_nome ELSE <<"e", "m", "p", "r", "e", "s", "a">>,
                   " ", <<"_">>)
        \o <<".", "d", "o", "c", "x">>

----------------------------------------------------------------------------
(* The form: what the user may have typed in each field.                   *)

Fields == {
    "termo_num", "empresa_nome", "empresa_cnpj", "empresa_cgcte",
    "empresa_endereco", "proa_num", "proa_data", "representante_nome",
    "representante_cpf", "parecer_num", "parecer_data", "doe_data",
    "empresa_porte", "cidade", "corede", "qtd_empregos", "pontos_fundopem",
    "set_estrategicos", "intensidade_tec", "perc_integrar", "pontos_idese",
    "pontos_setor", "valor_total", "valor_apres_inicial", "valor_inicial_aceito",
    "equips_24", "limite_max_liberado", "valor_liberado_fruicao", "data_inicio",
    "data_final_fruicao", "mes_regularidade" }

\* a form filled in with well-formed values
Completo == [
    termo_num |-> <<"1", "2", "/", "2", "0", "2", "5">>,
    empresa_nome |-> <<"A", "c", "m", "e", " ", "L", "t", "d", "a">>,
    empresa_cnpj |-> <<"1", "2", "3", "4", "5", "6", "7", "8", "0", "0", "0", "1", "9", "9">>,
    empresa_cgcte |-> <<"0", "9", "6", "1", "2", "3", "4", "5", "6", "7">>,
    empresa_endereco |-> <<"R", "u", "a", " ", "A", ",", " ", "1", "0">>,
    proa_num |-> <<
        "2", "4", "/", "1", "5", "0", "0", "-", "0", "0", "0", "1", "2", "3",
        "4", "-", "5" >>,
    proa_data |-> <<"2", "6", "/", "1", "2", "/", "2", "0", "2", "4">>,
    representante_nome |-> <<"A", "n", "a", " ", "S", "o", "u", "z", "a">>,
    representante_cpf |-> <<"1", "2", "3", "4", "5", "6", "7", "8", "9", "0", "1">>,
    parecer_num |-> <<"0", "4", "5", "/", "2", "0", "2", "5">>,
    parecer_data |-> <<"2", "4", ".", "0", "4", ".", "2", "0", "2", "5">>,
    doe_data |-> <<"2", "0", "2", "5", "-", "0", "5", "-", "0", "5">>,
    empresa_porte |-> <<"P", "e", "q", "u", "e", "n", "o">>,
    cidade |-> <<"C", "a", "n", "o", "a", "s">>,
    corede |-> <<"V", "a", "l", "e">>,
    qtd_empregos |-> <<"2", "9", "7">>,
    pontos_fundopem |-> <<"6", "0">>,
    set_estrategicos |-> <<"5">>,
    intensidade_tec |-> <<"3">>,
    perc_integrar |-> <<"3", "4", ",", "5", "5">>,
    pontos_idese |-> <<"2">>,
    pontos_setor |-> <<"4">>,
    valor_total |-> <<"1", "0", "0", "0", ",", "0", "0">>,
    valor_apres_inicial |-> <<"2", ",", "0", "5">>,
    valor_inicial_aceito |-> <<"1", ",", "0", "0">>,
    equips_24 |-> <<"1", "0", ",", "5">>,
    limite_max_liberado |-> <<"1", ".", "0", "0", "0", ",", "0", "0">>,
    valor_liberado_fruicao |-> <<"9", "9", ",", "9", "9", "9">>,
    data_inicio |-> <<"0", "1", "/", "0", "8", "/", "2", "0", "2", "5">>,
    data_final_fruicao |-> <<"3", "1", "/", "0", "1", "/", "2", "0", "3", "2">>,
    mes_regularidade |-> <<"J", "u", "l", "h", "o", "/", "2", "0", "2", "5">> ]

\* text_input starts empty; the selectbox always holds one of its options
Vazio == [f \in Fields |-> IF f = "empresa_porte" THEN <<"P", "e", "q", "u", "e", "n", "o">> ELSE <<>>]

\* other things a user may type: ill-formed amounts, dates and numbers
Outros(f) ==
    CASE f = "empresa_porte" -> {<<"M", "é", "d", "i", "o">>, <<"G", "r", "a", "n", "d", "e">>}
      [] f = "empresa_cnpj" -> {<<
          "1", "2", ".", "3", "4", "5", ".", "6", "7", "8", "/", "0", "0",
          "0", "1", "-", "9", "9" >>, <<"1", "2", "3">>}
      [] f = "representante_cpf" -> {<<"1", "2", "3", ".", "4", "5", "6", ".", "7", "8", "9", "-", "0", "1">>, <<"X", "X", "X", ".", "X", "X", "X", ".", "X", "X", "X", "-", "X", "X">>}
      [] f = "empresa_nome" -> {<<"W", "e", "i", "ß", " ", "M", "ü", "l", "l", "e", "r">>}
      [] f \in {"proa_data", "parecer_data", "doe_data", "data_final_fruicao"} ->
            {<<"a", "b", "c">>, <<"3", "1", "/", "0", "2", "/", "2", "0", "2", "5">>}
      [] f = "data_inicio" ->
            {<<"a", "b", "c">>, <<"3", "1", "/", "0", "2", "/", "2", "0", "2", "5">>, <<" ", "1", "/", "8", "/", "2", "0", "2", "5">>, <<
                "9", "9", "9", "9", "9", "9", "9", "9", "9", "9", "9", "9",
                "9", "9", "9", "9", "9", "9", "9", "9" >>}
      [] f = "valor_total" ->
            {<<"a", "b", "c">>, <<"1", ",", "2", ",", "5">>, <<" ", "1", " ", ",", " ", "5", " ">>, <<"-", "5">>, <<"1", "e", "3">>, <<"1", "_", "0">>, <<"", "1">>,
             <<"6", "9", "3", ".", "2", "2", "4", ",", "3", "2">>, <<
                 "9", "9", "9", "9", "9", "9", "9", "9", "9", "9", "9", "9",
                 "9", "9", ",", "5" >>}
      [] f = "limite_max_liberado" -> {<<"a", "b", "c">>, <<"1", ",", "2", ",", "5">>}
      [] f = "pontos_fundopem" -> {<<"a", "b", "c">>, <<"", "1">>}
      [] OTHER -> {}

Values(f) ==
    (IF f = "empresa_porte" THEN {} ELSE {<<>>}) \cup {Completo[f]} \cup Outros(f)

MaxChanged == 1

RECURSIVE Changed(_, _)
\* the forms that differ from a form in at most n fields
Changed(base, n) ==
    IF n = 0 THEN {base}
    ELSE LET prev == Changed(base, n - 1)
         IN  prev \cup UNION {{[g EXCEPT ![f] = v] : g \in prev, v \in Values(f)} :
                                f \in Fields}

Forms == Changed(Vazio, MaxChanged) \cup Changed(Completo, MaxChanged)

----------------------------------------------------------------------------
(* The documents and maps docx_replace is called with.                     *)

Texts(n) == UNION {[1..m -> Alphabet] : m \in 0..n}

\* paragraphs of at most r runs and at most t characters
Paragraphs(r, t) ==
    {p \in UNION {[1..m -> Texts(t)] : m \in 0..r} : SumLen(p) <= t}

Substrings(t, n) ==
    {SubSeq(t, i, j) : i \in 1..Len(t), j \in 1..Len(t)} \cap (Texts(n) \ {<<>>})

SmallParagraphs == Paragraphs(2, 2)
SmallPairs == (Texts(2) \ {<<>>}) \X Texts(1)

\* dicts: no placeholder twice
Mappings(n) ==
    {m \in UNION {[1..c -> SmallPairs] : c \in 0..n} :
        \A i, j \in 1..Len(m) : i # j => m[i][1] # m[j][1]}

NoStep == [n |-> 0, pi |-> 0, ki |-> 0, before |-> <<>>]
NoForm == <<>>
NoDates == <<>>
NoDownload == <<>>
NoCall == [num |-> <<>>, modo |-> "", done |-> FALSE, ret |-> <<>>]

RECURSIVE While(_, _, _, _)
\* the while loop of lines 109-160 on one paragraph, run ahead from rs, the
\* paragraphs in seen having been met at the loop's test before: the
\* paragraph it leaves ("done"), or that it never ends because the paragraph
\* comes back to one met before ("loops"), or that the paragraph gets longer
\* than MaxGrow characters on the way ("grows")
While(rs, k, v, seen) ==
    Bind(rs, LAMBDA x :
        IF SumLen(x) > MaxGrow THEN [end |-> "grows", rs |-> x]
        ELSE IF ~Occurs(k, ParagraphText(x)) THEN [end |-> "done", rs |-> x]
        ELSE IF x \in seen THEN [end |-> "loops", rs |-> x]
        ELSE While(ReplaceOnce(x, k, v), k, v, seen \cup {x}))

RECURSIVE Bounded(_, _, _)
\* the for loop of lines 104-160 on one paragraph, from entry i of the map
\* on: no paragraph on the way is longer than MaxGrow characters
Bounded(rs, m, i) ==
    IF i > Len(m) THEN SumLen(rs) <= MaxGrow
    ELSE Bind(While(rs, m[i][1], m[i][2], {}), LAMBDA w :
            \/ w.end = "loops"
            \/ w.end = "done" /\ Bounded(w.rs, m, i + 1))

\* the calls the model follows: those during which every paragraph keeps
\* within MaxGrow characters (the state space is finite); a call that grows
\* a paragraph beyond every bound is not among them
Followed(d, m) == \A p \in 1..Len(d) : Bounded(d[p], m, 1)

Start(d, m) ==
    /\ Followed(d, m)
    /\ doc = d
    /\ mapping = m
    /\ pc = "call"
    /\ pi = 0
    /\ ki = 0
    /\ iter = 0
    /\ doc0 = d
    /\ hist = {}
    /\ last = NoStep
    /\ form = NoForm
    /\ gerar = FALSE
    /\ dts = NoDates
    /\ mp = <<>>
    /\ download = NoDownload
    /\ call = NoCall

\* one paragraph, one placeholder that occurs in it
InitOccurring ==
    \E p \in Paragraphs(MaxRuns, MaxText) :
        \E k \in Substrings(Join(p), MaxKeyLen), v \in Texts(MaxValLen) :
            Start(<<p>>, <<<<k, v>>>>)

\* one paragraph, several placeholders
InitKeys ==
    \E p \in SmallParagraphs, m \in Mappings(MaxKeys) : Start(<<p>>, m)

\* several paragraphs, one placeholder
InitParas ==
    \E d \in UNION {[1..c -> SmallParagraphs] : c \in 0..MaxParas} :
        \E kv \in SmallPairs : Start(d, <<kv>>)

ExampleDoc == << << <<"A", "B">>, <<"C", "D">>, <<"E", "F">> >> >>
ExampleMapping == << << <<"B", "C", "D", "E">>, <<"X">> >> >>

\* the cross-run example
InitExample == Start(ExampleDoc, ExampleMapping)

Init == InitOccurring \/ InitKeys \/ InitParas \/ InitExample

----------------------------------------------------------------------------
(* docx_replace.                                                           *)

placeholder == mapping[ki][1]
value == mapping[ki][2]

\* lines 100-101: if not mapping: return doc
ReturnUnmodified ==
    /\ pc = "call"
    /\ mapping = <<>>
    /\ pc' = "done"
    /\ UNCHANGED <<doc, mapping, pi, ki, iter, doc0, hist, last>>
    /\ UNCHANGED <<app, call>>

\* lines 163-170: the first paragraph, or none
FirstParagraph ==
    /\ pc = "call"
    /\ mapping # <<>>
    /\ IF doc = <<>>
       THEN pc' = "done" /\ UNCHANGED <<pi, ki>>
       ELSE pc' = "key" /\ pi' = 1 /\ ki' = 1
    /\ UNCHANGED <<doc, mapping, iter, doc0, hist, last>>
    /\ UNCHANGED <<app, call>>

\* lines 104-106: the placeholder is not in the paragraph: continue
SkipKey ==
    /\ pc = "key"
    /\ ki <= Len(mapping)
    /\ ~Occurs(placeholder, ParagraphText(doc[pi]))
    /\ ki' = ki + 1
    /\ UNCHANGED <<doc, mapping, pc, pi, iter, doc0, hist, last>>
    /\ UNCHANGED <<app, call>>

\* lines 105-109: the placeholder is in the paragraph: enter the while loop
EnterLoop ==
    /\ pc = "key"
    /\ ki <= Len(mapping)
    /\ Occurs(placeholder, ParagraphText(doc[pi]))
    /\ pc' = "while"
    /\ iter' = 0
    /\ UNCHANGED <<doc, mapping, pi, ki, doc0, hist, last>>
    /\ UNCHANGED <<app, call>>

\* lines 109-160: one iteration of the while loop
ReplaceStep ==
    /\ pc = "while"
    /\ Occurs(placeholder, ParagraphText(doc[pi]))
    /\ doc' = [doc EXCEPT ![pi] = ReplaceOnce(doc[pi], placeholder, value)]
    /\ iter' = 1 - iter
    /\ hist' = hist \cup {[pi |-> pi, ki |-> ki, before |-> doc[pi]]}
    /\ last' = [n |-> 1, pi |-> pi, ki |-> ki, before |-> doc[pi]]
    /\ UNCHANGED <<mapping, pc, pi, ki, doc0>>
    /\ UNCHANGED <<app, call>>

\* line 109: the placeholder is no longer in the paragraph: next map entry
ExitLoop ==
    /\ pc = "while"
    /\ ~Occurs(placeholder, ParagraphText(doc[pi]))
    /\ pc' = "key"
    /\ ki' = ki + 1
    /\ UNCHANGED <<doc, mapping, pi, iter, doc0, hist, last>>
    /\ UNCHANGED <<app, call>>

\* line 104 exhausted: the next paragraph (lines 163-170), or return doc
NextParagraph ==
    /\ pc = "key"
    /\ ki > Len(mapping)
    /\ IF pi < Len(doc)
       THEN pi' = pi + 1 /\ ki' = 1 /\ pc' = "key"
       ELSE pc' = "done" /\ UNCHANGED <<pi, ki>>
    /\ UNCHANGED <<doc, mapping, iter, doc0, hist, last>>
    /\ UNCHANGED <<app, call>>

Next ==
    \/ ReturnUnmodified
    \/ FirstParagraph
    \/ SkipKey
    \/ EnterLoop
    \/ ReplaceStep
    \/ ExitLoop
    \/ NextParagraph

Spec == Init /\ [][Next]_vars

----------------------------------------------------------------------------
(* num_extenso, called on its own.                                         *)

MaxInteiro == 12

\* what follows the integer part of an amount: nothing, or a comma and up to
\* three decimals
Decimais ==
    {<<>>} \cup {<<",">> \o d : d \in UNION {[1..m -> {"0", "1", "5"}] : m \in 0..3}}

NumInputs ==
    {Str(i) \o d : i \in 0..MaxInteiro, d \in Decimais}
        \cup {i \o d : i \in {<<"1", "0", "0", "0">>, <<"1", ".", "0", "0", "0">>, <<"0", "0", "7">>, <<>>, <<" ", "1", "2">>, <<"-", "5">>,
                             <<"+", "5">>, <<"1", "_", "0">>},
                       d \in {<<>>, <<",", "0", "0">>, <<",", "0", "5">>, <<",", "5">>}}
        \cup {<<"a", "b", "c">>, <<"1", ",", "2", ",", "5">>, <<".">>, <<" ", "1", " ", ",", " ", "5", " ">>, <<"1", " ", ",", "-", "5">>, <<"1", "e", "3">>, <<"5", "e", "-", "1">>,
              <<"N", "a", "N">>, <<"I", "n", "f">>, <<"6", "9", "3", ".", "2", "2", "4", ",", "3", "2">>, <<"", "1", " ", ",", "", "5">>, <<"1", "">>, <<"", "5">>,
              <<"", "5", " ", ",", "5">>, <<
                  "9", "9", "9", "9", "9", "9", "9", "9", "9", "9", "9", "9",
                  "9", "9", ",", "5" >>, <<
                  "1", "0", "0", "0", "0", "0", "0", "0", "0", "0", "0", "0",
                  "0", "0", "0", "0", "0", "0", "0", " ", ",", "5" >>,
              <<"1", " ", ",">> \o Zeros(MaxStrDigits - 1) \o <<"5">>,
              <<"1", " ", ",">> \o Zeros(MaxStrDigits) \o <<"5">>}

Modos == {"uif", "geral", "percent"}

InitExtenso ==
    /\ \E n \in NumInputs, m \in Modos :
            call = [num |-> n, modo |-> m, done |-> FALSE, ret |-> <<>>]
    /\ form = NoForm /\ gerar = FALSE /\ dts = NoDates /\ mp = <<>>
    /\ download = NoDownload
    /\ doc = <<>> /\ mapping = <<>> /\ pc = "idle" /\ pi = 0 /\ ki = 0 /\ iter = 0
    /\ doc0 = <<>> /\ hist = {} /\ last = NoStep

\* lines 80-92
NumExtenso ==
    /\ call.modo # ""
    /\ ~call.done
    /\ call' = [call EXCEPT !.done = TRUE, !.ret = num_extenso(call.num, call.modo)]
    /\ UNCHANGED <<engine, app>>

SpecExtenso == InitExtenso /\ [][NumExtenso]_vars

----------------------------------------------------------------------------
(* The submission of the form (lines 263-410): the map is built, the       *)
(* template is opened, docx_replace rewrites it step by step, the document *)
(* is saved and offered for download.                                      *)

\* the PROA sentence, as a template holds it in two runs
ProaRuns == <<PyTake(KeyProaFrase, 59), PyDrop(KeyProaFrase, 59)>>

\* TEMPLATE_FILE is not part of the sources: documents that hold some of the
\* markers, in one run, beside each other, and across runs
TemplateMarcadores == << <<KeyEmp, <<" ", "x", " ">>, KeyPontos>> >>
TemplateFrases == <<
    ProaRuns,
    <<KeyCpfFrase, <<",", " ">>, KeyMunicipioECorede>>,
    <<PyTake(KeyPontosFrase, 4), PyDrop(KeyPontosFrase, 4), <<";", " ">>, KeyG10>> >>
Templates == {TemplateMarcadores, TemplateFrases}

InitBuilder ==
    /\ form \in Forms
    /\ gerar = FALSE /\ dts = NoDates /\ mp = <<>> /\ download = NoDownload
    /\ call = NoCall
    /\ doc = <<>> /\ mapping = <<>> /\ pc = "idle" /\ pi = 0 /\ ki = 0 /\ iter = 0
    /\ doc0 = <<>> /\ hist = {} /\ last = NoStep

\* a call of to_date at lines 348-352 raised: the exception ends the run
Raises(dt) ==
    Raised \in {dt.dt_inicio, dt.dt_final, dt.dt_parecer, dt.dt_doe, dt.dt_proa}

\* lines 263-403: the form is submitted; the map is built (265-374), the
\* template is opened (402) and docx_replace is called on it with the map
\* (403).  Lines 377-399 only display the map.  Where a call of to_date
\* raises, the run ends there and nothing of it is left.
Gerar ==
    /\ form # NoForm
    /\ ~gerar
    /\ gerar' = TRUE
    /\ \E dt \in Dates(form) :
        IF Raises(dt)
        THEN /\ pc' = "raised"
             /\ dts' = NoDates
             /\ mp' = <<>>
             /\ UNCHANGED <<doc, doc0, mapping>>
        ELSE /\ pc' = "call"
             /\ dts' = dt
             /\ mp' = BuildMap(form, dt)
             /\ mapping' = mp'
             /\ \E t \in Templates :
                    /\ doc' = t
                    /\ doc0' = t
    /\ pi' = 0
    /\ ki' = 0
    /\ iter' = 0
    /\ hist' = {}
    /\ last' = NoStep
    /\ UNCHANGED <<form, download, call>>

\* the handler has built the map
Built == gerar /\ pc # "raised"

\* lines 404-410: docx_replace has returned; the document is saved to the
\* buffer, which the download button offers under the file name
Save ==
    /\ gerar
    /\ pc = "done"
    /\ download = NoDownload
    /\ download' = [buf |-> doc, nome |-> Nome(form)]
    /\ UNCHANGED <<engine, form, gerar, dts, mp, call>>

\* the map of the handler is never empty, so lines 100-101 are not taken
NextBuilder ==
    \/ Gerar
    \/ FirstParagraph
    \/ SkipKey
    \/ EnterLoop
    \/ ReplaceStep
    \/ ExitLoop
    \/ NextParagraph
    \/ Save

SpecBuilder == InitBuilder /\ [][NextBuilder]_vars

----------------------------------------------------------------------------
(* docx_replace, on the small documents of the termination property.       *)

\* one paragraph, one placeholder, whether it occurs or not, or no placeholder
InitShort ==
    \E p \in SmallParagraphs :
        \/ \E k \in Texts(2) \ {<<>>}, v \in Texts(2) : Start(<<p>>, <<<<k, v>>>>)
        \/ Start(<<p>>, <<>>)

\* the interpreter always takes the next step of the one thread
FairSpec == InitShort /\ [][Next]_vars /\ WF_vars(Next)

TypeOK ==
    /\ pc \in {"idle", "call", "key", "while", "done", "raised"}
    /\ iter \in {0, 1}
    /\ Len(doc) = Len(doc0)

----------------------------------------------------------------------------
(* What the properties speak of: occurrences, offsets and spans, stated    *)
(* from the texts alone.                                                   *)

Offsets(t, k) == {i \in 0..(Len(t) - Len(k)) : SubSeq(t, i + 1, i + Len(k)) = k}
FirstOffset(t, k) == CHOOSE i \in Offsets(t, k) : \A j \in Offsets(t, k) : i <= j
Contains(t, k) == Offsets(t, k) # {}

\* the characters before run i (1-based) of a paragraph
Before(rs, i) == SumLen(SubSeq(rs, 1, i - 1))

\* the run holding the character at offset s, and the run holding the one before e
StartRunOf(rs, s) ==
    CHOOSE i \in 1..Len(rs) : Before(rs, i) <= s /\ s < Before(rs, i) + Len(rs[i])
EndRunOf(rs, e) ==
    CHOOSE i \in 1..Len(rs) : Before(rs, i) < e /\ e <= Before(rs, i) + Len(rs[i])

\* a replacement h = [pi, ki, before]: its key, value, offsets and run span
KeyOf(h) == mapping[h.ki][1]
ValueOf(h) == mapping[h.ki][2]
StartOf(h) == FirstOffset(Join(h.before), KeyOf(h))
EndOf(h) == StartOf(h) + Len(KeyOf(h))
FirstOf(h) == StartRunOf(h.before, StartOf(h))
LastOf(h) == EndRunOf(h.before, EndOf(h))
SpanOf(h) == FirstOf(h)..LastOf(h)

\* the paragraph of the most recent replacement, as it is now
After == doc[last.pi]

----------------------------------------------------------------------------
\* C1: one iteration of the while loop for key K and value V, in a paragraph
\* whose runs concatenate to T with K first at offset s, leaves the runs
\* concatenating to T[0..s) + V + T[s+len(K)..], whether the occurrence lies
\* in one run or spans several.
C1_StepSplicesValue ==
    last.n = 1 =>
        LET T == Join(last.before)
            s == StartOf(last)
        IN  Join(After) = SubSeq(T, 1, s) \o ValueOf(last)
                            \o SubSeq(T, EndOf(last) + 1, Len(T))

\* a replacement across runs, over an empty run, by a value longer than the key
C1_Witness ==
    /\ last.n = 1
    /\ FirstOf(last) + 1 < LastOf(last)
    /\ \E i \in SpanOf(last) : last.before[i] = <<>>
    /\ Len(ValueOf(last)) > Len(KeyOf(last))

\* a replacement inside one run by a value shorter than the key
C1_WitnessSingle ==
    /\ last.n = 1
    /\ FirstOf(last) = LastOf(last)
    /\ Len(ValueOf(last)) < Len(KeyOf(last))

----------------------------------------------------------------------------
\* C2, as claimed: after docx_replace returns, every key K that occurred in a
\* paragraph P before the call no longer occurs in P's concatenated text,
\* unless K's own value contains K; also for maps of several keys.
C2_Original ==
    pc = "done" =>
        \A p \in 1..Len(doc), k \in 1..Len(mapping) :
            (/\ Contains(Join(doc0[p]), mapping[k][1])
             /\ ~Contains(mapping[k][2], mapping[k][1]))
                => ~Contains(Join(doc[p]), mapping[k][1])

\* C2, amended: after docx_replace returns, every key K that occurred in a
\* paragraph P before the call no longer occurs in P's concatenated text,
\* unless K's own value contains K or a key that comes after K in the map
\* was replaced in P.
C2_KeyGoneUnlessRecreated ==
    pc = "done" =>
        \A p \in 1..Len(doc), k \in 1..Len(mapping) :
            (/\ Contains(Join(doc0[p]), mapping[k][1])
             /\ ~Contains(mapping[k][2], mapping[k][1]))
                => \/ ~Contains(Join(doc[p]), mapping[k][1])
                   \/ \E h \in hist : h.pi = p /\ h.ki > k

\* a map of two keys, the first of them twice in the paragraph and gone after
\* the call, the second replaced too
C2_Witness ==
    /\ pc = "done"
    /\ Len(mapping) = 2
    /\ Cardinality(Offsets(Join(doc0[1]), mapping[1][1])) >= 2
    /\ ~Contains(mapping[1][2], mapping[1][1])
    /\ ~Contains(Join(doc[1]), mapping[1][1])
    /\ \E h \in hist : h.ki = 2

----------------------------------------------------------------------------
\* C3: docx_replace terminates for every finite document and every map with
\* non-empty keys: every run reaches the return.
C3_Terminates == <>(pc = "done")

----------------------------------------------------------------------------
\* C4: docx_replace changes nothing but run text: the number of paragraphs
\* and of the runs of every paragraph stay the same, every run outside the
\* start-run..end-run span of every replacement performed keeps its text,
\* and a paragraph in which no key occurs, or any paragraph under the empty
\* map, keeps every run.
C4_OnlySpansChange ==
    /\ Len(doc) = Len(doc0)
    /\ \A p \in 1..Len(doc0) :
        /\ Len(doc[p]) = Len(doc0[p])
        /\ \A r \in 1..Len(doc0[p]) :
            (\A h \in hist : h.pi = p => r \notin SpanOf(h))
                => doc[p][r] = doc0[p][r]
        /\ (\A k \in 1..Len(mapping) : ~Contains(Join(doc0[p]), mapping[k][1]))
                => doc[p] = doc0[p]
    /\ mapping = <<>> => doc = doc0

\* two paragraphs after the call, a replacement in the second, beside a run
\* with text that no replacement spans
C4_Witness ==
    /\ pc = "done"
    /\ Len(doc) = 2
    /\ \E h \in hist : h.pi = 2
    /\ \E r \in 1..Len(doc[2]) :
        /\ doc[2][r] # <<>>
        /\ \A h \in hist : h.pi = 2 => r \notin SpanOf(h)

----------------------------------------------------------------------------
\* C5, as claimed: runs ["AB", "CD", "EF"] under {"BCDE": "X"} end up
\* concatenating to "AXF", the first run "A", the middle run "", the last "F".
C5_Original ==
    (pc = "done" /\ doc0 = ExampleDoc /\ mapping = ExampleMapping) =>
        /\ Join(doc[1]) = <<"A", "X", "F">>
        /\ doc[1][1] = <<"A">>
        /\ doc[1][2] = <<>>
        /\ doc[1][3] = <<"F">>

\* C5, amended: runs ["AB", "CD", "EF"] under {"BCDE": "X"} end up
\* concatenating to "AXF", the first run "AX", the middle run "", the last "F".
C5_ExampleRuns ==
    (pc = "done" /\ doc0 = ExampleDoc /\ mapping = ExampleMapping) =>
        /\ Join(doc[1]) = <<"A", "X", "F">>
        /\ doc[1][1] = <<"A", "X">>
        /\ doc[1][2] = <<>>
        /\ doc[1][3] = <<"F">>

\* the example after the call, its one replacement done
C5_Witness ==
    /\ pc = "done"
    /\ doc0 = ExampleDoc
    /\ mapping = ExampleMapping
    /\ last.n = 1
    /\ last.before = ExampleDoc[1]

----------------------------------------------------------------------------
\* C6: in a replacement across runs the value is distributed by the runs'
\* original lengths: the start run becomes its prefix before the match plus
\* the first min(len(value), remaining capacity) characters of the value,
\* every intermediate run the next chunk of at most its own length, the end
\* run the rest of the value plus its suffix after the match; so no run but
\* the end run gets longer.
C6_Distribution ==
    (last.n = 1 /\ FirstOf(last) # LastOf(last)) =>
        LET b == last.before
            V == ValueOf(last)
            f == FirstOf(last)
            l == LastOf(last)
            pre == StartOf(last) - Before(b, f)
            cap == Len(b[f]) - pre
            used(i) == cap + SumLen(SubSeq(b, f + 1, i - 1))
            chunk(a, n) == SubSeq(V, Min(a, Len(V)) + 1, Min(a + n, Len(V)))
        IN  /\ f < l
            /\ After[f] = SubSeq(b[f], 1, pre) \o chunk(0, cap)
            /\ \A i \in (f + 1)..(l - 1) : After[i] = chunk(used(i), Len(b[i]))
            /\ After[l] = chunk(used(l), Len(V))
                            \o SubSeq(b[l], EndOf(last) - Before(b, l) + 1, Len(b[l]))
            /\ \A i \in f..(l - 1) : Len(After[i]) <= Len(b[i])

\* a replacement across three runs whose middle run takes a chunk of the value
C6_Witness ==
    /\ last.n = 1
    /\ FirstOf(last) + 1 < LastOf(last)
    /\ \E i \in (FirstOf(last) + 1)..(LastOf(last) - 1) :
        last.before[i] # <<>> /\ After[i] # <<>>

----------------------------------------------------------------------------
(* What the properties of the map builder speak of.                        *)

\* the inputs whose entries depend on the input, each with the keys it sets
OptionalEntries == {
    <<"valor_total", {KeyValorTotal}>>,
    <<"valor_apres_inicial", {KeyValorApres, KeyG10}>>,
    <<"valor_inicial_aceito", {KeyValorAceito, KeyG11}>>,
    <<"equips_24", {KeyEquips}>>,
    <<"limite_max_liberado", {KeyLimite, KeyG8}>>,
    <<"valor_liberado_fruicao", {KeyFruicao, KeyG21}>>,
    <<"pontos_fundopem", {KeyPontosFrase}>>,
    <<"perc_integrar", {KeyIntegrarFrase, KeyIntegrarPct, KeyIntegrar}>>,
    <<"qtd_empregos", {KeyEmp, KeyEmp297, KeyEmp294}>> }

\* the text reads as a number in Brazilian notation, which br_currency
\* formats
IsAmount(x) ==
    Bind(Decimal(Replace(Replace(x, ".", <<>>), ",", <<".">>)), LAMBDA d :
        d.kind = "finite" /\ Quantize(d).ok)

\* the hundredths of an amount, a numeral of three digits at least
Quantia(x) ==
    Bind(Quantize(Decimal(Replace(Replace(x, ".", <<>>), ",", <<".">>))).q, LAMBDA q :
        IF Len(q) < 3 THEN Zeros(3 - Len(q)) \o q ELSE q)

\* the whole units and the cents of an amount, as numerals
Inteiro(x) == IntText(SubSeq(Quantia(x), 1, Len(Quantia(x)) - 2))
Centesimos(x) == IntText(SubSeq(Quantia(x), Len(Quantia(x)) - 1, Len(Quantia(x))))

\* the text holds the 11 digits of a CPF
IsCpf(x) == Cardinality({i \in 1..Len(x) : IsDigit(x[i])}) = 11

----------------------------------------------------------------------------
(* C7: the composite marker #MUNICIPIO_E_COREDE#.                          *)

\* C7 as stated: the key "#MUNICIPIO_E_COREDE#" is in the placeholder map the
\* handler builds only when both the city and the COREDE are non-empty, and
\* absent otherwise.
C7_Original ==
    Built => (HasKey(mp, KeyMunicipioECorede)
                <=> (form.cidade # <<>> /\ form.corede # <<>>))

\* C7 as amended: the key "#MUNICIPIO_E_COREDE#" is in every placeholder map
\* the handler builds; its value is "<city>/RS (COREDE: <corede>)" when both inputs are
\* non-empty and the empty string when either is empty, so the marker is then
\* replaced by nothing rather than left in the document.
C7_CompositeAlwaysPresent ==
    Built =>
        /\ HasKey(mp, KeyMunicipioECorede)
        /\ Get(mp, KeyMunicipioECorede) =
            IF form.cidade # <<>> /\ form.corede # <<>>
            THEN form.cidade \o <<"/", "R", "S", " ", "(", "C", "O", "R", "E", "D", "E", ":", " ">> \o form.corede \o <<")">>
            ELSE <<>>

\* a map built from a form with a city and no COREDE: the key is there, empty
C7_Witness ==
    /\ Built
    /\ form.cidade # <<>>
    /\ form.corede = <<>>
    /\ HasKey(mp, KeyMunicipioECorede)
    /\ Get(mp, KeyMunicipioECorede) = <<>>

----------------------------------------------------------------------------
(* C8: which inputs contribute an entry.                                   *)

\* C8 as stated: an empty or unparsable monetary, points, percentage or job
\* input, representative's CPF, start date, end date or regularity month, and
\* a parecer or PROA sentence with a missing number or date, contributes no
\* entry to the placeholder map the handler builds.
C8_Original ==
    Built =>
        /\ \A e \in OptionalEntries :
            (form[e[1]] = <<>> \/ ~IsAmount(form[e[1]])) =>
                \A k \in e[2] : ~HasKey(mp, k)
        /\ ~IsCpf(form.representante_cpf) => ~HasKey(mp, KeyCpfFrase)
        /\ dts.dt_inicio = None => ~HasKey(mp, KeyInicio)
        /\ dts.dt_final = None => ~HasKey(mp, KeyFinal) /\ ~HasKey(mp, KeyFinal2)
        /\ form.mes_regularidade = <<>> => ~HasKey(mp, KeyRegularidade)
        /\ (form.parecer_num = <<>> \/ dts.dt_parecer = None \/ dts.dt_doe = None)
                => ~HasKey(mp, KeyParecer)
        /\ (form.proa_num = <<>> \/ dts.dt_proa = None) =>
                ~HasKey(mp, KeyProaFrase)

\* C8 as amended: in every placeholder map the handler builds, a monetary,
\* points, percentage or job input contributes its entries exactly when it is
\* non-empty, whether or not it reads as a number: the total "abc" is entered
\* as "abc UIF/RS (abc de Unidades de Incentivo do FUNDOPEM/RS)" and the
\* points "abc" as "abc (abc) pontos"; the parecer sentence is entered exactly
\* when its number is non-empty and to_date returns a date for both its
\* dates, the PROA sentence exactly when its number is non-empty and to_date
\* returns a date for its date; the keys "CPF XXX.XXX.XXX-XX", "#inicio#",
\* "#final#", "#final2#" and "#regularidade#" are always entered: with "CPF "
\* and the input as typed when it has not 11 digits, with the empty string
\* for a date for which to_date returns None, with the regularity month as
\* typed.
C8_EntriesOfInputs ==
    Built =>
        /\ \A e \in OptionalEntries : \A k \in e[2] :
                HasKey(mp, k) <=> form[e[1]] # <<>>
        /\ form.valor_total = <<"a", "b", "c">> =>
                Get(mp, KeyValorTotal) =
                    <<
                        "a", "b", "c", " ", "U", "I", "F", "/", "R", "S",
                        " ", "(", "a", "b", "c", " ", "d", "e", " ", "U",
                        "n", "i", "d", "a", "d", "e", "s", " ", "d", "e",
                        " ", "I", "n", "c", "e", "n", "t", "i", "v", "o",
                        " ", "d", "o", " ", "F", "U", "N", "D", "O", "P",
                        "E", "M", "/", "R", "S", ")" >>
        /\ form.pontos_fundopem = <<"a", "b", "c">> =>
                Get(mp, KeyPontosFrase) = <<
                    "a", "b", "c", " ", "(", "a", "b", "c", ")", " ", "p",
                    "o", "n", "t", "o", "s" >>
        /\ HasKey(mp, KeyParecer) <=>
                (form.parecer_num # <<>> /\ dts.dt_parecer # None /\ dts.dt_doe # None)
        /\ HasKey(mp, KeyProaFrase) <=> (form.proa_num # <<>> /\ dts.dt_proa # None)
        /\ \A k \in {KeyCpfFrase, KeyInicio, KeyFinal, KeyFinal2, KeyRegularidade} :
                HasKey(mp, k)
        /\ ~IsCpf(form.representante_cpf) =>
                Get(mp, KeyCpfFrase) = <<"C", "P", "F", " ">> \o form.representante_cpf
        /\ dts.dt_inicio = None => Get(mp, KeyInicio) = <<>>
        /\ dts.dt_final = None => Get(mp, KeyFinal) = <<>> /\ Get(mp, KeyFinal2) = <<>>
        /\ Get(mp, KeyRegularidade) = form.mes_regularidade

\* a map built from a form with one amount given and the other amounts, the
\* CPF and the start date left empty
C8_Witness ==
    /\ Built
    /\ form.valor_total = <<>>
    /\ ~HasKey(mp, KeyValorTotal)
    /\ form.valor_apres_inicial # <<>>
    /\ HasKey(mp, KeyG10)
    /\ form.data_inicio = <<>>
    /\ Get(mp, KeyInicio) = <<>>
    /\ Get(mp, KeyCpfFrase) = <<"C", "P", "F", " ">>

\* a map built from a total that is not a number: its sentence is entered,
\* with the text as typed
C8_WitnessUnparsable ==
    /\ Built
    /\ form.valor_total = <<"a", "b", "c">>
    /\ HasKey(mp, KeyValorTotal)
    /\ Get(mp, KeyValorTotal) =
            <<
                "a", "b", "c", " ", "U", "I", "F", "/", "R", "S", " ", "(",
                "a", "b", "c", " ", "d", "e", " ", "U", "n", "i", "d", "a",
                "d", "e", "s", " ", "d", "e", " ", "I", "n", "c", "e", "n",
                "t", "i", "v", "o", " ", "d", "o", " ", "F", "U", "N", "D",
                "O", "P", "E", "M", "/", "R", "S", ")" >>

----------------------------------------------------------------------------
(* C9: num_extenso in currency mode.                                       *)

\* C9: in currency mode num_extenso spells the integer part followed by
\* "inteiro" (integer part 1) or "inteiros" (otherwise), and by the clause
\* ", e <cents> centésimo(s)" (singular iff the cents are 1) exactly when the
\* cents are not zero; "1,00" gives "um inteiro".
C9_UnitWordAlways ==
    (call.done /\ call.modo = "uif" /\ IsAmount(call.num)
        /\ ~Negative(Strip(call.num))) =>
        LET inteiro == Inteiro(call.num)
            dec == Centesimos(call.num)
        IN  call.ret =
                Num2Words(inteiro) \o <<" ">>
                    \o (IF inteiro = <<"1">> THEN <<"i", "n", "t", "e", "i", "r", "o">> ELSE <<"i", "n", "t", "e", "i", "r", "o", "s">>)
                    \o (IF dec # <<"0">>
                        THEN <<",", " ", "e", " ">> \o Num2Words(dec) \o <<" ">>
                                \o (IF dec = <<"1">> THEN <<"c", "e", "n", "t", "é", "s", "i", "m", "o">>
                                    ELSE <<"c", "e", "n", "t", "é", "s", "i", "m", "o", "s">>)
                        ELSE <<>>)

----------------------------------------------------------------------------
(* C10: the order of the keys.                                             *)

\* C10: in every map the builder produces, a key that is a substring of
\* another key comes after it in the iteration order; the PROA sentence key,
\* which contains "#proa#", comes before the key "#proa#".
C10_LongerKeyFirst ==
    Built =>
        \A i, j \in 1..Len(mp) :
            (i # j /\ Len(mp[i][1]) <= Len(mp[j][1]) /\ Contains(mp[j][1], mp[i][1]))
                => j < i

----------------------------------------------------------------------------
(* C11: the run walk resolves the indices and the offsets.                 *)

\* what lines 118-131 compute for a placeholder in a paragraph is in range
Resolved(rs, k) ==
    LET loc == Locate(rs, k)
        s == loc.run_start_idx
        e == loc.run_end_idx
    IN  /\ s \in 0..(Len(rs) - 1)
        /\ e \in 0..(Len(rs) - 1)
        /\ s <= e
        /\ 0 <= loc.offset_start
        /\ loc.offset_start < Len(rs[s + 1])
        /\ 0 < loc.offset_end
        /\ loc.offset_end <= Len(rs[e + 1])

\* C11: whenever the body of the while loop runs (a non-empty placeholder
\* occurs in the concatenation of the paragraph's runs), run_start_idx and
\* run_end_idx are indices of runs, never -1, with run_start_idx <=
\* run_end_idx, and 0 <= offset_start < len(start run), 0 < offset_end <=
\* len(end run); both where the body is about to run and where it has run,
\* with empty runs and with matches that begin or end on a run boundary.
C11_WalkResolves ==
    /\ (pc = "while" /\ placeholder # <<>> /\ Contains(Join(doc[pi]), placeholder))
            => Resolved(doc[pi], placeholder)
    /\ last.n = 1 => Resolved(last.before, KeyOf(last))

\* a replacement whose match began at the start of a run, ended at the end of
\* a later run and spanned an empty run between them
C11_Witness ==
    /\ last.n = 1
    /\ LET loc == Locate(last.before, KeyOf(last))
       IN  /\ loc.run_start_idx + 1 < loc.run_end_idx
           /\ \E i \in (loc.run_start_idx + 1)..(loc.run_end_idx - 1) :
                last.before[i + 1] = <<>>
           /\ loc.offset_start = 0
           /\ loc.offset_end = Len(last.before[loc.run_end_idx + 1])

=============================================================================
